---- MODULE Spec2Model ----
(***************************************************************************)
(* A model of python-est: the external polling CA backend                  *)
(* (handlers/certifier_ca_handler.py), the local signing CA backend        *)
(* (handlers/openssl_ca_handler_fixed.py) and the two protocol drivers     *)
(* (core/est_handler.py and src/python_est/server.py).                     *)
(***************************************************************************)
EXTENDS Integers, Sequences, FiniteSets, TLC

(***************************************************************************)
(* Common values                                                           *)
(***************************************************************************)
\* Python's None
None == "None"

\* value of a local variable that has not been assigned yet
Unbound == "<unbound>"

(***************************************************************************)
(* Bounds                                                                  *)
(***************************************************************************)
\* largest polling_timeout (seconds) the configuration is drawn from
MaxPollingTimeout == 11

\* number of enroll calls one handler instance serves in a behaviour
MaxEnrolls == 2

(***************************************************************************)
(* External polling backend: certifier_ca_handler.py                       *)
(***************************************************************************)
VARIABLES
    polling_timeout,   \* CAhandler.polling_timeout
    epc,               \* position of enroll: "idle", "loop", "returned", "raised"
    request_url,       \* _loop_poll's argument (cert_dic['href'])
    cnt,               \* _loop_poll's loop counter
    poll_cnt,          \* _loop_poll's iteration budget
    error,             \* _loop_poll's local error
    cert_bundle,       \* _loop_poll's local cert_bundle
    cert_raw,          \* _loop_poll's local cert_raw
    poll_identifier,   \* _loop_poll's local poll_identifier
    broke,             \* the loop was left by break
    pollLog,           \* responses the polls of the current enroll received
    slept,             \* seconds spent in time.sleep by the current enroll
    enrollResult,      \* what enroll returned: <<error, cert, poll_identifier>>
    enrolls,           \* enroll calls made so far
    pollArg,           \* argument and response of the last externally-driven poll
    pollResult         \* what the last externally-driven poll returned

pollVars == <<polling_timeout, epc, request_url, cnt, poll_cnt, error,
              cert_bundle, cert_raw, poll_identifier, broke, pollLog, slept,
              enrollResult, enrolls, pollArg, pollResult>>


\* CAhandler.timeout: the fixed inter-attempt delay in seconds
timeout == 5

\* poll handles (request URLs) the external CA hands out; "" is a falsy one
Handles == {"", "url1"}

\* Python truthiness of a handle
Truthy(v) == v # None /\ v # ""

\* what a GET of the request URL (and of its certificate URL) can answer:
\*   nostatus      no 'status' key
\*   unknown       a status other than accepted / rejected
\*   accepted      accepted, no 'certificate' key
\*   accepted_nob64  accepted, 'certificate' key, certificate record without
\*                 'certificateBase64'
\*   accepted_cert accepted, 'certificate' key, record with 'certificateBase64'
\*   rejected      status rejected
\*   exc           the GET of the request URL raises
\*   exc_cert      accepted, 'certificate' key, the GET of the certificate raises
PollResponses == {"nostatus", "unknown", "accepted", "accepted_nob64",
                  "accepted_cert", "rejected", "exc", "exc_cert"}

\* math.ceil(self.polling_timeout/5)
PollCnt(t) == (t + 4) \div 5

\* the dictionaries _cert_get can hand to enroll, by the keys they carry
CertDics == [status: BOOLEAN, message: BOOLEAN, certificateBase64: BOOLEAN,
             href: BOOLEAN, other: BOOLEAN]

\* bool(cert_dic): a dictionary with no key at all is falsy
DicNonEmpty(d) == d.status \/ d.message \/ d.certificateBase64 \/ d.href \/ d.other

\* enroll's direct outcomes, for a submission that is not pending
EnrollDirect(d) ==
    IF ~DicNonEmpty(d) THEN <<"internal error", None, None>>
    ELSE IF d.status THEN
        IF d.message THEN <<"message", None, None>>
        ELSE <<"unknown errror", None, None>>
    ELSE IF d.certificateBase64 THEN <<None, "pem", None>>
    ELSE <<"no certificate information found", None, None>>

\* enroll is pending: the dictionary carries href and neither status nor certificate
IsPending(d) == DicNonEmpty(d) /\ ~d.status /\ ~d.certificateBase64 /\ d.href

PollInit ==
    /\ polling_timeout \in 0..MaxPollingTimeout
    /\ epc = "idle"
    /\ request_url = None
    /\ cnt = 0
    /\ poll_cnt = 0
    /\ error = None
    /\ cert_bundle = None
    /\ cert_raw = None
    /\ poll_identifier = Unbound
    /\ broke = FALSE
    /\ pollLog = <<>>
    /\ slept = 0
    /\ enrollResult = None
    /\ enrolls = 0
    /\ pollArg = None
    /\ pollResult = None

\* enroll(), from its entry up to the return or up to the entry of _loop_poll's
\* while loop
enroll_submit(d, href) ==
    /\ epc \in {"idle", "returned", "raised"}
    /\ enrolls < MaxEnrolls
    /\ enrolls' = enrolls + 1
    /\ pollLog' = <<>>
    /\ slept' = 0
    /\ broke' = FALSE
    /\ error' = None
    /\ cert_bundle' = None
    /\ cert_raw' = None
    /\ IF IsPending(d)
       THEN /\ request_url' = href
            /\ IF Truthy(href)
               THEN /\ poll_cnt' = PollCnt(polling_timeout)
                    /\ cnt' = 1
                    /\ poll_identifier' = Unbound
                    /\ epc' = "loop"
                    /\ enrollResult' = None
               ELSE \* no request url: _loop_poll returns at once
                    /\ poll_cnt' = 0
                    /\ cnt' = 0
                    /\ poll_identifier' = href
                    /\ epc' = "returned"
                    /\ enrollResult' = <<None, None, href>>
       ELSE /\ request_url' = None
            /\ poll_cnt' = 0
            /\ cnt' = 0
            /\ poll_identifier' = Unbound
            /\ epc' = "returned"
            /\ enrollResult' = EnrollDirect(d)
    /\ UNCHANGED <<polling_timeout, pollArg, pollResult>>

\* the body of _loop_poll's while loop after the GET: what the response r
\* makes of the locals (error, cert_bundle, cert_raw), the poll identifier it
\* leaves and whether the loop is left by break
LoopEvalRejectKeepsPolling(r, url, err, bundle, raw) ==
    CASE r = "accepted_cert" ->
            [error |-> None, cert_bundle |-> "bundle", cert_raw |-> "certificateBase64",
             poll_identifier |-> None, brk |-> TRUE]
      [] r = "accepted_nob64" ->
            [error |-> "Request accepted but no certificateBase64 returned",
             cert_bundle |-> bundle, cert_raw |-> raw, poll_identifier |-> url, brk |-> FALSE]
      [] r = "accepted" ->
            [error |-> "Request accepted but no certificate returned",
             cert_bundle |-> bundle, cert_raw |-> raw, poll_identifier |-> url, brk |-> FALSE]
      [] r = "rejected" ->
            [error |-> "Request rejected by operator",
             cert_bundle |-> bundle, cert_raw |-> raw, poll_identifier |-> url, brk |-> FALSE]
      [] OTHER ->
            [error |-> err, cert_bundle |-> bundle, cert_raw |-> raw,
             poll_identifier |-> url, brk |-> FALSE]

LoopEvalSuccessKeepsHandle(r, url, err, bundle, raw) ==
    CASE r = "accepted_cert" ->
            [error |-> None, cert_bundle |-> "bundle", cert_raw |-> "certificateBase64",
             poll_identifier |-> url, brk |-> TRUE]
      [] r = "accepted_nob64" ->
            [error |-> "Request accepted but no certificateBase64 returned",
             cert_bundle |-> bundle, cert_raw |-> raw, poll_identifier |-> url, brk |-> FALSE]
      [] r = "accepted" ->
            [error |-> "Request accepted but no certificate returned",
             cert_bundle |-> bundle, cert_raw |-> raw, poll_identifier |-> url, brk |-> FALSE]
      [] r = "rejected" ->
            [error |-> "Request rejected by operator",
             cert_bundle |-> bundle, cert_raw |-> raw, poll_identifier |-> None, brk |-> TRUE]
      [] OTHER ->
            [error |-> err, cert_bundle |-> bundle, cert_raw |-> raw,
             poll_identifier |-> url, brk |-> FALSE]

LoopEvalUnknownSetsError(r, url, err, bundle, raw) ==
    CASE r = "accepted_cert" ->
            [error |-> None, cert_bundle |-> "bundle", cert_raw |-> "certificateBase64",
             poll_identifier |-> None, brk |-> TRUE]
      [] r = "accepted_nob64" ->
            [error |-> "Request accepted but no certificateBase64 returned",
             cert_bundle |-> bundle, cert_raw |-> raw, poll_identifier |-> url, brk |-> FALSE]
      [] r = "accepted" ->
            [error |-> "Request accepted but no certificate returned",
             cert_bundle |-> bundle, cert_raw |-> raw, poll_identifier |-> url, brk |-> FALSE]
      [] r = "rejected" ->
            [error |-> "Request rejected by operator",
             cert_bundle |-> bundle, cert_raw |-> raw, poll_identifier |-> None, brk |-> TRUE]
      [] r = "unknown" ->
            [error |-> "Unknown request status", cert_bundle |-> bundle, cert_raw |-> raw,
             poll_identifier |-> url, brk |-> FALSE]
      [] OTHER ->
            [error |-> "\"status\" field not found in response.", cert_bundle |-> bundle,
             cert_raw |-> raw, poll_identifier |-> url, brk |-> FALSE]

LoopEval(r, url, err, bundle, raw) ==
    CASE r = "accepted_cert" ->
            [error |-> None, cert_bundle |-> "bundle", cert_raw |-> "certificateBase64",
             poll_identifier |-> None, brk |-> TRUE]
      [] r = "accepted_nob64" ->
            [error |-> "Request accepted but no certificateBase64 returned",
             cert_bundle |-> bundle, cert_raw |-> raw, poll_identifier |-> url, brk |-> FALSE]
      [] r = "accepted" ->
            [error |-> "Request accepted but no certificate returned",
             cert_bundle |-> bundle, cert_raw |-> raw, poll_identifier |-> url, brk |-> FALSE]
      [] r = "rejected" ->
            [error |-> "Request rejected by operator",
             cert_bundle |-> bundle, cert_raw |-> raw, poll_identifier |-> None, brk |-> TRUE]
      [] OTHER ->
            \* no 'status' key, or a status that is neither accepted nor
            \* rejected: no branch assigns anything
            [error |-> err, cert_bundle |-> bundle, cert_raw |-> raw,
             poll_identifier |-> url, brk |-> FALSE]

\* one iteration of _loop_poll's while loop: the GET, the evaluation of the
\* response and, unless the loop is left, the sleep
_loop_poll_iter(r) ==
    /\ epc = "loop"
    /\ ~broke
    /\ cnt <= poll_cnt
    /\ cnt' = cnt + 1
    /\ pollLog' = Append(pollLog, r)
    /\ enrollResult' = None
    /\ IF r \in {"exc", "exc_cert"}
       THEN \* the exception leaves _loop_poll and enroll
            /\ epc' = "raised"
            /\ poll_identifier' = IF r = "exc" THEN poll_identifier ELSE request_url
            /\ UNCHANGED <<error, cert_bundle, cert_raw, broke, slept>>
       ELSE LET e == LoopEval(r, request_url, error, cert_bundle, cert_raw) IN
            /\ epc' = "loop"
            /\ error' = e.error
            /\ cert_bundle' = e.cert_bundle
            /\ cert_raw' = e.cert_raw
            /\ poll_identifier' = e.poll_identifier
            /\ broke' = e.brk
            /\ slept' = IF e.brk THEN slept ELSE slept + timeout
    /\ UNCHANGED <<polling_timeout, request_url, poll_cnt, enrolls, pollArg, pollResult>>

\* the end of _loop_poll (loop exhausted or left by break) and enroll's return
_loop_poll_return ==
    /\ epc = "loop"
    /\ broke \/ cnt > poll_cnt
    /\ IF poll_identifier = Unbound
       THEN \* UnboundLocalError at "return(error, ..., poll_identifier)"
            /\ epc' = "raised"
            /\ enrollResult' = None
       ELSE /\ epc' = "returned"
            /\ enrollResult' = <<error, None, poll_identifier>>
    /\ UNCHANGED <<polling_timeout, request_url, cnt, poll_cnt, error, cert_bundle,
                   cert_raw, poll_identifier, broke, pollLog, slept, enrolls,
                   pollArg, pollResult>>

\* _request_poll(request_url) for the response r; "raised" when it raises
_request_poll(url, r) ==
    CASE r = "accepted_cert" -> <<None, "bundle", "certificateBase64", url, FALSE>>
      [] r = "accepted_nob64" ->
            <<"certificateBase64 is missing in cert request response", None, None, url, FALSE>>
      [] r = "accepted" ->
            <<"No certificate structure in request response", None, None, url, FALSE>>
      [] r = "rejected" -> <<"Request rejected by operator", None, None, url, TRUE>>
      [] r = "unknown" -> <<"Unknown request status", None, None, url, FALSE>>
      [] r = "exc_cert" -> "raised"
      [] OTHER -> <<"\"status\" field not found in response.", None, None, url, FALSE>>

\* poll(cert_name, poll_identifier, csr): the externally-driven poll
poll(h, r) ==
    /\ pollArg' = <<h, r>>
    /\ pollResult' = IF Truthy(h) THEN _request_poll(h, r)
                     ELSE <<None, None, None, h, FALSE>>
    /\ UNCHANGED <<polling_timeout, epc, request_url, cnt, poll_cnt, error,
                   cert_bundle, cert_raw, poll_identifier, broke, pollLog, slept,
                   enrollResult, enrolls>>


(***************************************************************************)
(* Strings are sequences of one-character strings.                         *)
(***************************************************************************)
S_example_com_anchored == <<"e", "x", "a", "m", "p", "l", "e", ".", "c", "o", "m", "$">>

S_device_example_com == <<"d", "e", "v", "i", "c", "e", ".", "e", "x", "a", "m", "p", "l", "e", ".", "c", "o", "m">>

S_example_com_evil_net == <<"e", "x", "a", "m", "p", "l", "e", ".", "c", "o", "m", ".", "e", "v", "i", "l", ".", "n", "e", "t">>

S_evil == <<"e", "v", "i", "l">>

\* characters the bounded patterns and candidates are built from
Chars == {"a", "$", "*", "\\"}

\* longest pattern and longest candidate of the bounded enumeration
MaxLen == 3

RECURSIVE StringsOfLen(_)
StringsOfLen(n) ==
    IF n = 0 THEN {<<>>}
    ELSE {Append(w, c) : w \in StringsOfLen(n - 1), c \in Chars}

Strings == UNION {StringsOfLen(n) : n \in 0..MaxLen}

(***************************************************************************)
(* CSR policy of the local signing backend as section 4.2 of the           *)
(* specification and tests/test_openssl_ca_handler.py describe it          *)
(* (_list_check, _string_wlbl_check); the handler under handlers/ carries  *)
(* none of these functions.                                                *)
(***************************************************************************)
\* a pattern ending in $ is anchored
Anchored(p) == Len(p) > 0 /\ p[Len(p)] = "$"

\* the pattern with a written \* read as a literal *
RECURSIVE Unescape(_)
Unescape(p) ==
    IF Len(p) = 0 THEN <<>>
    ELSE IF Len(p) >= 2 /\ p[1] = "\\" /\ p[2] = "*"
         THEN <<"*">> \o Unescape(SubSeq(p, 3, Len(p)))
         ELSE <<p[1]>> \o Unescape(SubSeq(p, 2, Len(p)))

\* the pattern's text: without the anchor, escapes resolved
PatternTextKeepsAnchor(p) == Unescape(p)

PatternText(p) ==
    Unescape(IF Anchored(p) THEN SubSeq(p, 1, Len(p) - 1) ELSE p)

\* the text t occurs in c starting at position i
MatchAt(t, c, i) ==
    /\ i >= 1
    /\ i + Len(t) - 1 <= Len(c)
    /\ \A k \in 1..Len(t) : c[i + k - 1] = t[k]

\* one pattern against one candidate
PatternMatches(p, c) ==
    LET t == PatternText(p) IN
    IF Anchored(p)
    THEN MatchAt(t, c, Len(c) - Len(t) + 1)
    ELSE \E i \in 1..(Len(c) + 1) : MatchAt(t, c, i)

\* _list_check(entry, list_, toggle)
_list_check(entry, list_, toggle) ==
    LET check_result ==
            IF entry = None THEN FALSE
            ELSE IF Len(list_) = 0 THEN TRUE
            ELSE \E i \in 1..Len(list_) : PatternMatches(list_[i], entry)
    IN IF toggle THEN ~check_result ELSE check_result

\* _string_wlbl_check(entry, white_list, black_list)
_string_wlbl_check(entry, white_list, black_list) ==
    IF Len(black_list) > 0 /\ ~_list_check(entry, black_list, TRUE) THEN FALSE
    ELSE IF Len(white_list) > 0 THEN _list_check(entry, white_list, FALSE)
    ELSE TRUE

\* the candidates of a CSR: the CN, then the value of each DNS-type SAN
Candidates(csr) ==
    LET dns == SelectSeq(csr.sans, LAMBDA san : san[1] = "DNS") IN
    (IF csr.cn = None THEN <<>> ELSE <<csr.cn>>)
    \o [i \in 1..Len(dns) |-> dns[i][2]]

\* the CSR policy of section 4.2: there is a candidate and every one passes
PolicyAccepts(csr, white_list, black_list) ==
    LET cands == Candidates(csr) IN
    /\ Len(cands) > 0
    /\ \A i \in 1..Len(cands) : _string_wlbl_check(cands[i], white_list, black_list)

\* the CN of the CSR matches a pattern of the blacklist
CnBlacklisted(csr, black_list) ==
    /\ csr.cn # None
    /\ \E i \in 1..Len(black_list) : PatternMatches(black_list[i], csr.cn)

(***************************************************************************)
(* Evaluation of the policy functions on bounded inputs                    *)
(***************************************************************************)
VARIABLES
    policyIn,    \* the inputs: a pattern and a candidate, or an entry and two lists
    policyOut    \* the result of the function applied to them, None before

policyVars == <<policyIn, policyOut>>

\* the pattern lists of the whitelist / blacklist evaluation
PatternLists ==
    {<<>>, <<S_example_com_anchored>>, <<S_evil>>, <<S_evil, S_example_com_anchored>>,
     <<<<"a">>>>, <<<<"a", "$">>>>, <<<<"\\", "*", "a">>>>}

\* the entries of the whitelist / blacklist evaluation
Entries ==
    {S_device_example_com, S_example_com_evil_net, <<"a">>, <<"a", "a">>,
     <<"*", "a">>, <<"a", "$">>}

PolicyInputs ==
    [kind : {"match"}, pattern : Strings, cand : Strings]
    \cup [kind : {"wlbl"}, entry : Entries, white_list : PatternLists,
          black_list : PatternLists]

PolicyIdle == policyIn = None /\ policyOut = None

PolicyInit == policyIn \in PolicyInputs /\ policyOut = None

\* _list_check of one candidate against a list of one pattern
list_check_apply ==
    /\ policyIn.kind = "match"
    /\ policyOut = None
    /\ policyOut' = <<_list_check(policyIn.cand, <<policyIn.pattern>>, FALSE)>>
    /\ UNCHANGED policyIn

\* _string_wlbl_check of an entry against a whitelist and a blacklist
string_wlbl_check_apply ==
    /\ policyIn.kind = "wlbl"
    /\ policyOut = None
    /\ policyOut' = <<_string_wlbl_check(policyIn.entry, policyIn.white_list,
                                            policyIn.black_list)>>
    /\ UNCHANGED policyIn

(***************************************************************************)
(* Local signing backend: handlers/openssl_ca_handler_fixed.py             *)
(***************************************************************************)
VARIABLES
    h,          \* the CAhandler instance: its attributes
    entered,    \* __enter__ has been called on the instance
    loads,      \* number of _config_load calls on the instance
    files,      \* certificate files in cert_save_path
    keyRead,    \* the issuing key has been read by the current enroll
    issuedSerials, \* serial numbers assigned so far
    lcsr,       \* the CSR of the last enroll
    lresult     \* what the last enroll returned, "raised" when it raised

localVars == <<h, entered, loads, files, keyRead, issuedSerials, lcsr, lresult>>

\* a path setting: absent, naming a missing file, or naming an existing file
PathSettings == {None, "nofile", "file"}

\* number of settings of a configuration file that are missing or name a
\* file that does not exist
MaxDefects == 1

Defects(f) ==
    Cardinality({k \in {"issuing_ca_key", "issuing_ca_cert", "issuing_ca_crl"} :
                    f[k] # "file"})
    + (IF f.ca_cert_chain_list = None THEN 1 ELSE 0)
    + (IF f.cert_save_path = "nofile" THEN 1 ELSE 0)
    + (IF f.openssl_conf = "nofile" THEN 1 ELSE 0)

\* the [CAhandler] section of the configuration file
ConfigFiles ==
    {f \in [issuing_ca_key : PathSettings, issuing_ca_cert : PathSettings,
            issuing_ca_crl : PathSettings, ca_cert_chain_list : {None, "list"},
            cert_save_path : PathSettings, openssl_conf : {None, "nofile"},
            save_cert_as_hex : BOOLEAN] : Defects(f) <= MaxDefects}

\* whitelist / blacklist attributes an embedding program sets on the instance
PolicyLists == {<<>>, <<S_example_com_anchored>>, <<S_evil>>}

\* number of _config_load calls on one instance in a behaviour
MaxLoads == 2

\* the CSRs submitted to the local backend; valid: the PKCS#10 parses
Csrs ==
    [cn : {None, S_device_example_com, S_example_com_evil_net},
     sans : {<<>>, <<<<"DNS", S_device_example_com>>>>},
     valid : BOOLEAN]

\* where the signing can raise: nowhere, when the CA key or certificate is
\* loaded, when the certificate file is opened, when it is written
Faults == {"none", "ca_load", "open", "write"}

\* number of certificates the backend issues in a behaviour
MaxIssued == 2

\* CAhandler.__init__
HandlerInit(wl, bl) ==
    [issuer_dict |-> [issuing_ca_key |-> None, issuing_ca_cert |-> None,
                      issuing_ca_crl |-> None],
     ca_cert_chain_list |-> "empty",
     cert_save_path |-> None,
     openssl_conf |-> None,
     save_cert_as_hex |-> FALSE,
     whitelist |-> wl,
     blacklist |-> bl]

LocalIdle ==
    /\ h = None /\ entered = FALSE /\ loads = 0 /\ files = {} /\ keyRead = FALSE
    /\ issuedSerials = {} /\ lcsr = None /\ lresult = None

LocalInit ==
    /\ h \in {HandlerInit(wl, bl) : wl \in PolicyLists, bl \in PolicyLists}
    /\ entered = FALSE
    /\ loads = 0
    /\ files = {}
    /\ keyRead = FALSE
    /\ issuedSerials = {}
    /\ lcsr = None
    /\ lresult = None

\* _config_load(): a setting the file carries overwrites the attribute
_config_load(hd, f) ==
    [hd EXCEPT
        !.issuer_dict =
            [issuing_ca_key |-> IF f.issuing_ca_key # None THEN f.issuing_ca_key
                                ELSE @.issuing_ca_key,
             issuing_ca_cert |-> IF f.issuing_ca_cert # None THEN f.issuing_ca_cert
                                 ELSE @.issuing_ca_cert,
             issuing_ca_crl |-> IF f.issuing_ca_crl # None THEN f.issuing_ca_crl
                                ELSE @.issuing_ca_crl],
        !.ca_cert_chain_list = IF f.ca_cert_chain_list # None THEN f.ca_cert_chain_list ELSE @,
        !.cert_save_path = IF f.cert_save_path # None THEN f.cert_save_path ELSE @,
        !.openssl_conf = IF f.openssl_conf # None THEN f.openssl_conf ELSE @,
        !.save_cert_as_hex = f.save_cert_as_hex]

\* __enter__(): loads the configuration while issuing_ca_key is not set
local_enter(f) ==
    /\ loads < MaxLoads
    /\ entered' = TRUE
    /\ IF h.issuer_dict.issuing_ca_key = None
       THEN h' = _config_load(h, f) /\ loads' = loads + 1
       ELSE UNCHANGED <<h, loads>>
    /\ UNCHANGED <<files, keyRead, issuedSerials, lcsr, lresult>>

\* os.path.exists(path): raises TypeError for None
\* _config_check(): the error it returns, None when the configuration is
\* consistent, "raised" when os.path.exists is handed None
_config_check(hd) ==
    IF hd.issuer_dict.issuing_ca_key = None THEN "raised"
    ELSE IF hd.issuer_dict.issuing_ca_key = "nofile" THEN "issuing_ca_key does not exist"
    ELSE IF hd.issuer_dict.issuing_ca_cert = None THEN "raised"
    ELSE IF hd.issuer_dict.issuing_ca_cert = "nofile" THEN "issuing_ca_cert does not exist"
    ELSE IF hd.issuer_dict.issuing_ca_crl = None THEN "raised"
    ELSE IF hd.issuer_dict.issuing_ca_crl = "nofile" THEN "issuing_ca_crl does not exist"
    ELSE IF hd.cert_save_path = "nofile" THEN "cert_save_path does not exist"
    ELSE IF hd.openssl_conf = "nofile" THEN "openssl_conf does not exist"
    ELSE IF hd.ca_cert_chain_list = "empty"
         THEN "ca_cert_chain_list must be specified in config file"
    ELSE None

\* _csr_check(csr): "For simplicity, just return True"
_csr_check(hd, csr) == TRUE

\* the name of the file a certificate is saved under
CertFile(hd, serial) == <<IF hd.save_cert_as_hex THEN "hex" ELSE "dec", serial>>

\* uuid.uuid4().int: a serial number that has not been assigned before
NewSerial(used) == Cardinality(used) + 1

\* enroll(csr)
local_enroll(csr, fault) ==
    /\ entered
    /\ Cardinality(issuedSerials) < MaxIssued
    /\ lcsr' = csr
    /\ LET cfgerr == _config_check(h)
           serial == NewSerial(issuedSerials)
       IN
       IF cfgerr = "raised"
       THEN /\ lresult' = "raised"
            /\ keyRead' = FALSE
            /\ UNCHANGED <<files, issuedSerials>>
       ELSE IF cfgerr # None
       THEN /\ lresult' = <<cfgerr, None, None>>
            /\ keyRead' = FALSE
            /\ UNCHANGED <<files, issuedSerials>>
       ELSE IF ~_csr_check(h, csr)
       THEN /\ lresult' = <<"urn:ietf:params:acme:badCSR", None, None>>
            /\ keyRead' = FALSE
            /\ UNCHANGED <<files, issuedSerials>>
       ELSE IF fault = "ca_load"
       THEN \* _ca_load raises while it reads the key or the certificate
            /\ lresult' = <<"Certificate enrollment failed", None, None>>
            /\ keyRead' = TRUE
            /\ UNCHANGED <<files, issuedSerials>>
       ELSE IF ~csr.valid
       THEN \* load_certificate_request raises
            /\ lresult' = <<"Certificate enrollment failed", None, None>>
            /\ keyRead' = TRUE
            /\ UNCHANGED <<files, issuedSerials>>
       ELSE /\ keyRead' = TRUE
            /\ issuedSerials' = issuedSerials \cup {serial}
            /\ IF h.cert_save_path = "file" /\ fault = "open"
               THEN /\ lresult' = <<"Certificate enrollment failed", None, None>>
                    /\ UNCHANGED files
               ELSE IF h.cert_save_path = "file" /\ fault = "write"
               THEN \* open() has created the file, write() raises
                    /\ lresult' = <<"Certificate enrollment failed", None, None>>
                    /\ files' = files \cup {CertFile(h, serial)}
               ELSE /\ lresult' = <<None, <<"cert", csr.cn, serial>>, None>>
                    /\ files' = IF h.cert_save_path = "file"
                                THEN files \cup {CertFile(h, serial)}
                                ELSE files
    /\ UNCHANGED <<h, entered, loads>>

(***************************************************************************)
(* Protocol drivers: core/est_handler.py (ESTSrvHandler) and               *)
(* src/python_est/server.py (ESTServer)                                    *)
(***************************************************************************)
VARIABLES
    userDb,     \* lines of the SRP user database: <<username, salt, verifier>>
    dreq,       \* the request handled last
    dresp,      \* the response to it: status code, whether the request was taken
                \* as authenticated, whether a certificate was requested from the
                \* CA for it, whether the device was recorded
    requests,   \* requests handled so far
    caCalls     \* times a CA backend was asked to issue a certificate

driverVars == <<userDb, dreq, dresp, requests, caCalls>>

\* requests one behaviour handles
MaxRequests == 2

\* hashlib.pbkdf2_hmac('sha256', password, salt, 100000).hex()
Pbkdf2(password, salt) == <<"pbkdf2", password, salt>>

\* _get_user_verifier(username): the first line of the user, <<>> if none
_get_user_verifier(db, username) ==
    LET idx == {i \in 1..Len(db) : db[i][1] = username} IN
    IF idx = {} THEN <<>>
    ELSE db[CHOOSE i \in idx : \A j \in idx : i <= j]

\* SRPAuthenticator.authenticate(username, password).success
authenticate(db, username, password) ==
    LET v == _get_user_verifier(db, username) IN
    /\ v # <<>>
    /\ v[3] = Pbkdf2(password, v[2])

NoRequest ==
    [driver |-> "none", path |-> "", srpUsername |-> None, clientCert |-> FALSE,
     credentials |-> <<>>, data |-> FALSE, form |-> <<"", "", "">>]

NoResponse == [code |-> 0, authenticated |-> FALSE, enrolled |-> FALSE, tracked |-> FALSE]

DriverIdle ==
    /\ userDb = <<>> /\ dreq = NoRequest /\ dresp = NoResponse
    /\ requests = 0 /\ caCalls = 0

DriverInit ==
    /\ userDb = << <<"estuser", "salt", Pbkdf2("estpass123", "salt")>> >>
    /\ dreq = NoRequest
    /\ dresp = NoResponse
    /\ requests = 0
    /\ caCalls = 0

\* paths a POST reaches ESTSrvHandler with
HandlerPaths ==
    {"/bootstrap/login", "/.well-known/est/bootstrap", "/bootstrap",
     "/bootstrap/enroll", "/.well-known/est/simpleenroll",
     "/.well-known/est/simplereenroll", "/.well-known/est/cacerts"}

\* self.path == '/.well-known/est/bootstrap' or self.path.startswith('/bootstrap')
IsBootstrapPath(path) ==
    path \in {"/.well-known/est/bootstrap", "/bootstrap", "/bootstrap/login",
              "/bootstrap/enroll"}

IsEnrollPath(path) ==
    path \in {"/.well-known/est/simpleenroll", "/.well-known/est/simplereenroll"}

\* _auth_check() with a certificate accepted on the bootstrap paths as well
_auth_check_cert_everywhere(path, srpUsername, clientCertChain) ==
    clientCertChain \/ srpUsername # None

\* _auth_check()
_auth_check(path, srpUsername, clientCertChain) ==
    IF IsBootstrapPath(path)
    THEN srpUsername # None
    ELSE clientCertChain \/ srpUsername # None

\* _bootstrap_login_process(post_data): <<code, authenticated>>
_bootstrap_login_process(data, form, srpUsername) ==
    LET username == IF data THEN form[1] ELSE ""
        password == IF data THEN form[2] ELSE ""
    IN IF username = "" \/ password = "" THEN <<400, FALSE>>
       ELSE IF srpUsername = None THEN <<401, FALSE>>
       ELSE IF srpUsername # username THEN <<401, FALSE>>
       ELSE <<200, TRUE>>

\* what the CA handler's enroll can return to _cert_enroll: <<error, cert>>
EnrollOutcomes == {<<None, "cert">>, <<"error", None>>, <<None, None>>, <<"error", "cert">>}

\* _cert_enroll(csr): <<error, cert_pkcs7>>; p7ok: the PKCS#7 conversion works
_cert_enroll(outcome, p7ok) ==
    IF outcome[1] = None /\ outcome[2] # None
    THEN <<None, IF p7ok THEN "pkcs7" ELSE None>>
    ELSE IF outcome[2] = None THEN <<"No error but no cert returned", None>>
    ELSE <<outcome[1], None>>

\* _post_process(data) of ESTSrvHandler
post_process(path, srpUsername, clientCertChain, data, form, outcome, p7ok) ==
    /\ requests < MaxRequests
    /\ requests' = requests + 1
    /\ dreq' = [driver |-> "est_handler", path |-> path, srpUsername |-> srpUsername,
                clientCert |-> clientCertChain, credentials |-> <<>>, data |-> data,
                form |-> form]
    /\ IF path = "/bootstrap/login"
       THEN LET r == _bootstrap_login_process(data, form, srpUsername) IN
            /\ dresp' = [code |-> r[1], authenticated |-> r[2], enrolled |-> FALSE,
                         tracked |-> FALSE]
            /\ UNCHANGED caCalls
       ELSE IF ~_auth_check(path, srpUsername, clientCertChain)
       THEN /\ dresp' = [code |-> 401, authenticated |-> FALSE, enrolled |-> FALSE,
                         tracked |-> FALSE]
            /\ UNCHANGED caCalls
       ELSE IF data /\ IsEnrollPath(path)
       THEN /\ caCalls' = caCalls + 1
            /\ dresp' = [code |-> IF _cert_enroll(outcome, p7ok)[1] = None THEN 200 ELSE 500,
                         authenticated |-> TRUE, enrolled |-> TRUE, tracked |-> FALSE]
       ELSE /\ dresp' = [code |-> 400, authenticated |-> TRUE, enrolled |-> FALSE,
                         tracked |-> FALSE]
            /\ UNCHANGED caCalls
    /\ UNCHANGED userDb

\* Basic credentials a request can carry; <<>>: no Authorization header
Credentials ==
    {<<>>} \cup {<<u, pw>> : u \in {"estuser", "mallory"}, pw \in {"estpass123", "guess"}}

\* _authenticate_request that accepts every request
AuthenticateRequestAcceptsAll(db, credentials, clientCert) == TRUE

\* _authenticate_request(request, credentials).authenticated: the
\* credentials alone decide, the certificate of the TLS session is not read
_authenticate_request(db, credentials, clientCert) ==
    credentials # <<>> /\ authenticate(db, credentials[1], credentials[2])

\* est_bootstrap: POST /.well-known/est/bootstrap of ESTServer
\* caOk: the CA issues; dup: the device is registered already
est_bootstrap(credentials, clientCert, data, caOk, dup) ==
    /\ requests < MaxRequests
    /\ requests' = requests + 1
    /\ dreq' = [driver |-> "server", path |-> "/.well-known/est/bootstrap",
                srpUsername |-> None, clientCert |-> clientCert,
                credentials |-> credentials, data |-> data, form |-> <<"", "", "">>]
    /\ IF credentials = <<>>
       THEN \* Depends(HTTPBasic()) answers 401 before the handler runs
            /\ dresp' = [code |-> 401, authenticated |-> FALSE, enrolled |-> FALSE,
                         tracked |-> FALSE]
            /\ UNCHANGED caCalls
       ELSE IF ~data
       THEN /\ dresp' = [code |-> 400, authenticated |-> FALSE, enrolled |-> FALSE,
                         tracked |-> FALSE]
            /\ UNCHANGED caCalls
       ELSE IF ~authenticate(userDb, credentials[1], credentials[2])
       THEN /\ dresp' = [code |-> 401, authenticated |-> FALSE, enrolled |-> FALSE,
                         tracked |-> FALSE]
            /\ UNCHANGED caCalls
       ELSE /\ caCalls' = caCalls + 1
            /\ dresp' = [code |-> IF caOk /\ ~dup THEN 200 ELSE 500,
                         authenticated |-> TRUE, enrolled |-> TRUE,
                         tracked |-> caOk /\ ~dup]
    /\ UNCHANGED userDb

\* simple_enrollment / simple_reenrollment: POST /.well-known/est/simpleenroll
\* and /.well-known/est/simplereenroll of ESTServer
simple_enrollment(path, credentials, clientCert, data, caOk) ==
    /\ requests < MaxRequests
    /\ requests' = requests + 1
    /\ dreq' = [driver |-> "server", path |-> path, srpUsername |-> None,
                clientCert |-> clientCert, credentials |-> credentials,
                data |-> data, form |-> <<"", "", "">>]
    /\ IF credentials = <<>>
       THEN \* Depends(HTTPBasic()) answers 401 before the handler runs
            /\ dresp' = [code |-> 401, authenticated |-> FALSE, enrolled |-> FALSE,
                         tracked |-> FALSE]
            /\ UNCHANGED caCalls
       ELSE IF ~_authenticate_request(userDb, credentials, clientCert)
       THEN /\ dresp' = [code |-> 401, authenticated |-> FALSE, enrolled |-> FALSE,
                         tracked |-> FALSE]
            /\ UNCHANGED caCalls
       ELSE IF ~data
       THEN /\ dresp' = [code |-> 400, authenticated |-> TRUE, enrolled |-> FALSE,
                         tracked |-> FALSE]
            /\ UNCHANGED caCalls
       ELSE /\ caCalls' = caCalls + 1
            /\ dresp' = [code |-> IF caOk THEN 200 ELSE 500, authenticated |-> TRUE,
                         enrolled |-> TRUE, tracked |-> FALSE]
    /\ UNCHANGED userDb

\* form fields of the bootstrap page: <<username, password, device_id>>
Forms ==
    {<<u, pw, d>> : u \in {"", "estuser", "mallory"}, pw \in {"", "estpass123"},
                    d \in {"", "pump-1"}}

\* bootstrap_authenticate: POST /.well-known/est/bootstrap/authenticate
bootstrap_authenticate(form, clientCert, caOk, dup) ==
    /\ requests < MaxRequests
    /\ requests' = requests + 1
    /\ dreq' = [driver |-> "server", path |-> "/.well-known/est/bootstrap/authenticate",
                srpUsername |-> None, clientCert |-> clientCert,
                credentials |-> <<>>, data |-> TRUE, form |-> form]
    /\ IF form[1] = "" \/ form[2] = "" \/ form[3] = ""
       THEN \* the HTTPException(400) is caught by "except Exception"
            /\ dresp' = [code |-> 500, authenticated |-> FALSE, enrolled |-> FALSE,
                         tracked |-> FALSE]
            /\ UNCHANGED caCalls
       ELSE IF ~authenticate(userDb, form[1], form[2])
       THEN /\ dresp' = [code |-> 401, authenticated |-> FALSE, enrolled |-> FALSE,
                         tracked |-> FALSE]
            /\ UNCHANGED caCalls
       ELSE /\ caCalls' = caCalls + 1
            /\ dresp' = [code |-> IF caOk /\ ~dup THEN 200 ELSE 500,
                         authenticated |-> TRUE, enrolled |-> TRUE,
                         tracked |-> caOk /\ ~dup]
    /\ UNCHANGED userDb

(***************************************************************************)
(* Revocation: CertificateAuthority.revoke_certificate                     *)
(* (src/python_est/ca.py)                                                  *)
(***************************************************************************)
VARIABLES
    revoked,     \* serial numbers the CA has recorded as revoked
    revokeLog    \* the revoke calls so far: <<certificate, reason, result>>

revokeVars == <<revoked, revokeLog>>

\* revoke calls one behaviour makes
MaxRevokes == 3

\* certificates presented for revocation: the serial number, and whether the
\* certificate verifies against the CA
RevokeCerts == [serial : {"0e", "14"}, verifies : BOOLEAN]

RevokeReasons == {"unspecified", "keyCompromise"}

RevokeIdle == revoked = {} /\ revokeLog = <<>>

RevokeInit == revoked = {} /\ revokeLog = <<>>

\* revoke_certificate(serial_number, reason): its return value; the record of
\* revoked serial numbers is neither read nor written
revoke_result(serial_number, reason, rec) == TRUE

\* a call of revoke_certificate for the serial number of cert
revoke_certificate(cert, reason) ==
    /\ Len(revokeLog) < MaxRevokes
    /\ revokeLog' = Append(revokeLog, <<cert, reason, revoke_result(cert.serial, reason, revoked)>>)
    /\ UNCHANGED revoked

(***************************************************************************)
(* Chain reconstruction of the external polling backend:                   *)
(* CAhandler._pem_cert_chain_generate (certifier_ca_handler.py)            *)
(***************************************************************************)
VARIABLES
    cpc,         \* position of _pem_cert_chain_generate: "idle", "loop", "after", "returned"
    leaf,        \* the cert_dic the function was called with
    cert_dic,    \* the local cert_dic: the record the loop looks at
    pem_list,    \* the local pem_list
    hops,        \* the records the issuer hops resolved to so far, in hop order
    pem_file     \* the value returned: a sequence of PEM blocks, or None

chainVars == <<cpc, leaf, cert_dic, pem_list, hops, pem_file>>

\* issuer hops one call follows
MaxHops == 3

\* a certificate record of the REST API: its certificateBase64 (None when the
\* key is absent) and whether it carries an issuer / issuerCa link
ChainCertDics == [certificateBase64 : {None, "A", "B"}, issuer : BOOLEAN, issuerCa : BOOLEAN]

\* cert_dic = {}
EmptyDic == [certificateBase64 |-> None, issuer |-> FALSE, issuerCa |-> FALSE]

\* the answer to the GET of an issuer link: a CA record with or without
\* certificates.active
CaDics == {"active", "no_active", "no_certificates"}

ChainIdle ==
    /\ cpc = "idle" /\ leaf = EmptyDic /\ cert_dic = EmptyDic /\ pem_list = <<>>
    /\ hops = <<>> /\ pem_file = None

ChainInit ==
    /\ cpc = "idle"
    /\ leaf = EmptyDic
    /\ cert_dic = EmptyDic
    /\ pem_list = <<>>
    /\ hops = <<>>
    /\ pem_file = None

\* pem_list.append(...) at the front of the list
PemListPrepend(list_, b64) == <<b64>> \o list_

\* pem_list.append(cert_dic['certificateBase64'])
PemListAppend(list_, b64) == Append(list_, b64)

\* one PEM block of pem_file
PemBlock(b64) == <<"-----BEGIN CERTIFICATE-----", b64, "-----END CERTIFICATE-----">>

\* _pem_cert_chain_generate(cert_dic): entry
chain_generate(d) ==
    /\ cpc \in {"idle", "returned"}
    /\ leaf' = d
    /\ cert_dic' = d
    /\ pem_list' = <<>>
    /\ hops' = <<>>
    /\ pem_file' = None
    /\ cpc' = IF d # EmptyDic THEN "loop" ELSE "after"

\* one iteration of "while issuer_loop"; ca and nxt are the answers to the
\* GET of the issuer link and of the CA's active certificate
chain_iter(ca, nxt) ==
    /\ cpc = "loop"
    /\ IF cert_dic.certificateBase64 = None
       THEN \* no pem content: break
            /\ cpc' = "after"
            /\ UNCHANGED <<cert_dic, pem_list, hops>>
       ELSE /\ pem_list' = PemListAppend(pem_list, cert_dic.certificateBase64)
            /\ IF cert_dic.issuer \/ cert_dic.issuerCa
               THEN /\ Len(hops) < MaxHops
                    /\ cert_dic' = IF ca = "active" THEN nxt ELSE EmptyDic
                    /\ hops' = Append(hops, cert_dic')
                    /\ cpc' = "loop"
               ELSE /\ cpc' = "after"
                    /\ UNCHANGED <<cert_dic, hops>>
    /\ UNCHANGED <<leaf, pem_file>>

\* "for cert in pem_list": the blocks of pem_list, one after the other
RECURSIVE PemFile(_)
PemFile(list_) ==
    IF list_ = <<>> THEN <<>>
    ELSE <<PemBlock(Head(list_))>> \o PemFile(Tail(list_))

\* the rest of the function: pem_file from pem_list, and the return
chain_return ==
    /\ cpc = "after"
    /\ pem_file' = IF Len(pem_list) > 0 THEN PemFile(pem_list) ELSE None
    /\ cpc' = "returned"
    /\ UNCHANGED <<leaf, cert_dic, pem_list, hops>>

(***************************************************************************)
(* Request body decoding: ESTSrvHandler.do_POST (core/est_handler.py)      *)
(* Bodies are sequences of one-byte strings.                               *)
(***************************************************************************)
VARIABLES
    body,          \* what the client sent: headers mode, chunks, framing, trailer
    rfile,         \* the bytes of the request body not read yet
    dpc,           \* position of do_POST: "start", "size", "data", "done", "raised", "blocked"
    chunk_length,  \* do_POST's local chunk_length
    post_data      \* do_POST's local post_data; Unbound before it is assigned

decodeVars == <<body, rfile, dpc, chunk_length, post_data>>

\* chunks in one request body
MaxChunks == 2

CR == "\r"

LF == "\n"

S_hello == <<"h", "e", "l", "l", "o">>

\* the data of a chunk
ChunkData == {S_hello, <<"h", "i">>, <<"h", LF, "i">>, <<" ", "h", "i">>}

ChunkLists == UNION {[1..n -> ChunkData] : n \in 0..MaxChunks}

\* the request bodies: "length": Content-Length with the chunks' data as the
\* body; "none": neither header; "chunked": Transfer-Encoding chunked, framed
\* as RFC 7230 has it ("rfc") or with an empty line after the data of each
\* chunk ("blankline"), with or without a trailer field after the last chunk;
\* closed: the client has closed its side after the body
Bodies ==
    [mode : {"length", "none"}, chunks : ChunkLists, framing : {"rfc"},
     trailer : {<<>>}, closed : {TRUE}]
    \cup [mode : {"chunked"}, chunks : ChunkLists, framing : {"rfc", "blankline"},
          trailer : {<<>>, <<"X", ":", "v">>}, closed : BOOLEAN]

HexDigits == <<"0", "1", "2", "3", "4", "5", "6", "7", "8", "9", "a", "b", "c", "d", "e", "f">>

\* the hexadecimal digits of n, most significant first
RECURSIVE Hex(_)
Hex(n) == IF n < 16 THEN <<HexDigits[n + 1]>> ELSE Hex(n \div 16) \o <<HexDigits[(n % 16) + 1]>>

RECURSIVE Concat(_)
Concat(seqs) == IF seqs = <<>> THEN <<>> ELSE Head(seqs) \o Concat(Tail(seqs))

\* one chunk on the wire
EncodeChunk(data, framing) ==
    Hex(Len(data)) \o <<CR, LF>> \o data \o <<CR, LF>>
    \o (IF framing = "blankline" THEN <<CR, LF>> ELSE <<>>)

\* a chunked body on the wire: the chunks, the zero-size chunk, the trailer
\* fields, the closing empty line
RECURSIVE EncodeChunks(_, _)
EncodeChunks(chunks, framing) ==
    IF chunks = <<>> THEN <<>>
    ELSE EncodeChunk(Head(chunks), framing) \o EncodeChunks(Tail(chunks), framing)

Encode(b) ==
    IF b.mode = "chunked"
    THEN EncodeChunks(b.chunks, b.framing) \o <<"0", CR, LF>>
         \o (IF b.trailer = <<>> THEN <<>> ELSE b.trailer \o <<CR, LF>>) \o <<CR, LF>>
    ELSE Concat(b.chunks)

\* bytes.strip() removes these from both ends
Whitespace == {" ", "\t", CR, LF}

RECURSIVE lstrip(_)
lstrip(line) ==
    IF line # <<>> /\ Head(line) \in Whitespace THEN lstrip(Tail(line)) ELSE line

RECURSIVE rstrip(_)
rstrip(line) ==
    IF line # <<>> /\ line[Len(line)] \in Whitespace
    THEN rstrip(SubSeq(line, 1, Len(line) - 1)) ELSE line

strip(line) == rstrip(lstrip(line))

\* the length of rfile.readline(): up to and including the first LF, or all
\* that is left
LineLen(stream) ==
    LET lfs == {i \in 1..Len(stream) : stream[i] = LF} IN
    IF lfs = {} THEN Len(stream) ELSE CHOOSE i \in lfs : \A j \in lfs : i <= j

\* int(line, 16): -1 stands for ValueError
RECURSIVE int16(_)
int16(line) ==
    IF line = <<>> THEN -1
    ELSE LET last == line[Len(line)]
             idx == {i \in 1..16 : HexDigits[i] = last}
             rest == SubSeq(line, 1, Len(line) - 1)
         IN IF idx = {} THEN -1
            ELSE IF rest = <<>> THEN (CHOOSE i \in idx : TRUE) - 1
            ELSE IF int16(rest) = -1 THEN -1
            ELSE 16 * int16(rest) + (CHOOSE i \in idx : TRUE) - 1

NoBody == [mode |-> "none", chunks |-> <<>>, framing |-> "rfc", trailer |-> <<>>,
           closed |-> TRUE]

DecodeIdle ==
    /\ body = NoBody /\ rfile = <<>> /\ dpc = "idle" /\ chunk_length = 0
    /\ post_data = Unbound

DecodeInit ==
    /\ body \in Bodies
    /\ rfile = Encode(body)
    /\ dpc = "start"
    /\ chunk_length = 0
    /\ post_data = Unbound

\* do_POST up to the entry of the chunk loop: the choice by the headers
do_POST_headers ==
    /\ dpc = "start"
    /\ IF body.mode = "length"
       THEN \* int(self.headers['Content-Length']) is the length of the body
            /\ post_data' = IF Len(rfile) > 0 THEN rfile ELSE None
            /\ rfile' = <<>>
            /\ dpc' = "done"
       ELSE IF body.mode = "chunked"
       THEN /\ post_data' = <<>>
            /\ dpc' = "size"
            /\ UNCHANGED rfile
       ELSE \* post_data is not assigned: _post_process(post_data) raises
            \* UnboundLocalError
            /\ dpc' = "raised"
            /\ UNCHANGED <<rfile, post_data>>
    /\ UNCHANGED <<body, chunk_length>>

\* the outer loop's readline: the chunk size line
do_POST_chunk_size ==
    /\ dpc = "size"
    /\ IF rfile = <<>> /\ ~body.closed
       THEN \* readline waits for bytes the client never sends
            /\ dpc' = "blocked"
            /\ UNCHANGED <<rfile, chunk_length>>
       ELSE LET n == LineLen(rfile)
                line == strip(SubSeq(rfile, 1, n))
            IN /\ rfile' = SubSeq(rfile, n + 1, Len(rfile))
               /\ IF int16(line) = -1
                  THEN dpc' = "raised" /\ UNCHANGED chunk_length
                  ELSE dpc' = "data" /\ chunk_length' = int16(line)
    /\ UNCHANGED <<body, post_data>>

\* the inner loop's readline: a line of data, or the empty line that ends the
\* chunk, after which a chunk size of 0 ends the decoding
do_POST_chunk_line ==
    /\ dpc = "data"
    /\ IF rfile = <<>> /\ ~body.closed
       THEN /\ dpc' = "blocked"
            /\ UNCHANGED <<rfile, post_data>>
       ELSE LET n == LineLen(rfile)
                line == strip(SubSeq(rfile, 1, n))
            IN /\ rfile' = SubSeq(rfile, n + 1, Len(rfile))
               /\ IF line # <<>>
                  THEN post_data' = post_data \o line /\ dpc' = "data"
                  ELSE /\ UNCHANGED post_data
                       /\ dpc' = IF chunk_length = 0 THEN "done" ELSE "size"
    /\ UNCHANGED <<body, chunk_length>>

(***************************************************************************)
(* Certificate-bearing responses of ESTServer: GET cacerts, POST bootstrap, *)
(* POST simpleenroll and simplereenroll.                                    *)
(***************************************************************************)
VARIABLES response_format, wire

respVars == <<response_format, wire>>

\* responses kept on the wire log
MaxResponses == 2

\* ESTConfig.response_format: 'base64' (default) or 'der'
ResponseFormats == {"base64", "der"}

\* certificates a response can carry
RespCerts == {"ca", "leaf"}

\* Accept header of the request; None: no header
Accepts == {None, "application/pkcs7-mime", "application/octet-stream"}

\* pkcs7.serialize_certificates(certificates, Encoding.DER)
serialize_certificates(certificates) == [enc |-> "der", certs |-> certificates]

\* base64.b64encode(...).decode()
b64encode(data) == [enc |-> "base64", of |-> data]

\* _create_pkcs7_response(certificates) of CertificateAuthority
_create_pkcs7_response(certificates) == b64encode(serialize_certificates(certificates))

\* names of the header fields of a response
HeaderNames(headers) == {hd[1] : hd \in headers}

RespIdle ==
    /\ response_format = "base64" /\ wire = <<>>

RespInit ==
    /\ response_format \in ResponseFormats
    /\ wire = <<>>

\* get_ca_certs: GET /.well-known/est/cacerts
get_ca_certs(accept) ==
    /\ Len(wire) < MaxResponses
    /\ wire' = Append(wire,
                 [path |-> "/.well-known/est/cacerts", accept |-> accept,
                  content |-> _create_pkcs7_response(<<"ca">>),
                  headers |-> {<<"Content-Type", "application/pkcs7-mime">>,
                               <<"Content-Transfer-Encoding", "base64">>,
                               <<"Content-Disposition", "attachment; filename=cacerts.p7c">>}])
    /\ UNCHANGED response_format

\* est_bootstrap: the 200 response of POST /.well-known/est/bootstrap
est_bootstrap_response(cert, accept) ==
    /\ Len(wire) < MaxResponses
    /\ wire' = Append(wire,
                 [path |-> "/.well-known/est/bootstrap", accept |-> accept,
                  content |-> _create_pkcs7_response(<<cert>>),
                  headers |-> {<<"Content-Type", "application/pkcs7-mime">>,
                               <<"Content-Transfer-Encoding", "base64">>}])
    /\ UNCHANGED response_format

\* simple_enrollment / simple_reenrollment: the 200 response
simple_enrollment_response(path, cert, accept) ==
    /\ Len(wire) < MaxResponses
    /\ wire' = Append(wire,
                 [path |-> path, accept |-> accept,
                  content |-> _create_pkcs7_response(<<cert>>),
                  headers |-> {<<"Content-Type", "application/pkcs7-mime; smime-type=certs-only">>,
                               <<"Content-Transfer-Encoding", "base64">>,
                               <<"Content-Disposition", "attachment; filename=cert.p7c">>}])
    /\ UNCHANGED response_format

(***************************************************************************)
(* Embedded database backend: the CSR records of the database.  The        *)
(* handler is not part of src/; the operators follow spec.md section 4.4   *)
(* and test_xca_ca_handler.py.                                             *)
(***************************************************************************)
VARIABLES items, requests_table, importLog

xdbVars == <<items, requests_table, importLog>>

\* _csr_import calls of one behaviour
MaxImports == 4

\* request names resolved from the CSR (CN, else first DNS SAN)
RequestNames == {"dev1", "dev2"}

\* CSR bytes
XcaCsrs == {"csr1", "csr2"}

\* _csr_search('name', value) that never finds a record
CsrSearchFindsNothing(value) == {}

\* _csr_search('name', value): the CSR records whose item carries the name
_csr_search(value) ==
    {i \in 1..Len(requests_table) : items[requests_table[i].item] = value}

\* _item_insert(item_dic): the row id of the new item
_item_insert == Len(items) + 1

XdbIdle ==
    /\ items = <<>> /\ requests_table = <<>> /\ importLog = <<>>

XdbInit == XdbIdle

\* _csr_import(csr, request_name): the record found under the name, else a
\* new item and a new CSR record
_csr_import(csr, request_name) ==
    /\ Len(importLog) < MaxImports
    /\ LET csr_info == _csr_search(request_name) IN
       IF csr_info # {}
       THEN /\ importLog' = Append(importLog,
                  <<request_name, csr, requests_table[CHOOSE i \in csr_info : TRUE]>>)
            /\ UNCHANGED <<items, requests_table>>
       ELSE LET row_id == _item_insert
                new == [item |-> row_id, signed |-> 1, request |-> csr]
            IN /\ items' = Append(items, request_name)
               /\ requests_table' = Append(requests_table, new)
               /\ importLog' = Append(importLog, <<request_name, csr, new>>)

(***************************************************************************)
(* Embedded database backend: certificate templates.  The handler is not   *)
(* part of src/; the operators follow spec.md section 4.4 and              *)
(* test_xca_ca_handler.py (test_117 .. test_158).                          *)
(***************************************************************************)
VARIABLES template_dic, cert_validity, extension_list

templateVars == <<template_dic, cert_validity, extension_list>>

\* a setting the template does not contain
Absent == "<absent>"

\* the settings of a decoded template; a setting decoded to an empty value
\* is present with the value None
Templates ==
    [validM : {Absent, "0", "1", "2"}, validN : {Absent, "2", "10"},
     keyUse : {Absent, "0", "3"}, kuCritical : {Absent, "1"},
     eKeyUse : {Absent, None, "serverAuth, clientAuth"}, ekuCritical : {Absent, "1"},
     crlDist : {Absent, None, "crlDist"},
     ca : {Absent, "0", "1", "2"}, bcCritical : {Absent, "1"},
     foo : {Absent, "bar"}]

\* the names of the settings
TemplateKeys ==
    {"validM", "validN", "keyUse", "kuCritical", "eKeyUse", "ekuCritical", "crlDist",
     "ca", "bcCritical", "foo"}

\* 'key' in template_dic
In(key, t) == t[key] # Absent

\* bool(template_dic): the template has at least one setting
TemplateNonEmpty(t) == \E key \in TemplateKeys : In(key, t)

\* int(value) of a setting
int(value) ==
    CASE value = "0" -> 0 [] value = "1" -> 1 [] value = "2" -> 2
      [] value = "3" -> 3 [] value = "10" -> 10

\* _validity_calculate that takes every count as days
ValidityAlwaysDays(t) ==
    IF In("validM", t) /\ In("validN", t) THEN int(t.validN) ELSE 365

\* _validity_calculate(template_dic): days of validity
_validity_calculate(t) ==
    IF In("validM", t) /\ In("validN", t)
    THEN IF t.validM = "0" THEN int(t.validN)
         ELSE IF t.validM = "1" THEN int(t.validN) * 30
         ELSE int(t.validN) * 365
    ELSE 365

\* key usage names by bit
KeyUsageNames ==
    <<"digitalSignature", "nonRepudiation", "keyEncipherment", "dataEncipherment",
      "keyAgreement", "keyCertSign", "cRLSign", "encipherOnly", "decipherOnly">>

\* the names of the bits i..9 set in the mask
RECURSIVE KueFrom(_, _)
KueFrom(mask, i) ==
    IF i > 9 THEN <<>>
    ELSE (IF (mask \div (2 ^ (i - 1))) % 2 = 1 THEN <<KeyUsageNames[i]>> ELSE <<>>)
         \o KueFrom(mask, i + 1)

\* _kue_generate(kuval)
_kue_generate(kuval) ==
    IF KueFrom(kuval, 1) = <<>>
    THEN <<"digitalSignature", "nonRepudiation", "keyEncipherment", "keyAgreement">>
    ELSE KueFrom(kuval, 1)

\* X509Extension(name, critical, value)
X509Extension(name, critical, value) == <<name, critical, value>>

SubjectKeyId == X509Extension("subjectKeyIdentifier", FALSE, "hash")

AuthorityKeyId == X509Extension("authorityKeyIdentifier", FALSE, "keyid:always")

\* a template without settings gets no extension beyond the two identifiers
NoDefaultExtensions == <<>>

\* the extensions added for a template without settings
DefaultExtensions ==
    <<X509Extension("keyUsage", TRUE, <<"digitalSignature", "keyEncipherment">>),
      X509Extension("basicConstraints", TRUE, "CA:FALSE"),
      X509Extension("extendedKeyUsage", FALSE, "serverAuth")>>

\* _extension_list_generate(template_dic, cert, ca_cert)
_extension_list_generate(t) ==
    <<SubjectKeyId, AuthorityKeyId>> \o
    (IF TemplateNonEmpty(t)
     THEN (IF In("keyUse", t)
           THEN <<X509Extension("keyUsage", t.kuCritical = "1",
                                _kue_generate(int(t.keyUse)))>>
           ELSE <<>>)
          \o (IF In("eKeyUse", t) /\ t.eKeyUse # None
              THEN <<X509Extension("extendedKeyUsage", t.ekuCritical = "1", t.eKeyUse)>>
              ELSE <<>>)
          \o (IF In("crlDist", t) /\ t.crlDist # None
              THEN <<X509Extension("crlDistributionPoints", FALSE, t.crlDist)>>
              ELSE <<>>)
          \o (IF In("ca", t) /\ t.ca # "0"
              THEN <<X509Extension("basicConstraints", t.bcCritical = "1",
                                   IF t.ca = "1" THEN "CA:TRUE" ELSE "CA:FALSE")>>
              ELSE <<>>)
     ELSE DefaultExtensions)

EmptyTemplate == [key \in TemplateKeys |-> Absent]

TemplateIdle ==
    /\ template_dic = EmptyTemplate /\ cert_validity = -1 /\ extension_list = <<>>

\* a template has been loaded; cert_validity -1 and extension_list <<>>:
\* not computed yet
TemplateInit ==
    /\ template_dic \in Templates /\ cert_validity = -1 /\ extension_list = <<>>

validity_calculate ==
    /\ cert_validity = -1
    /\ cert_validity' = _validity_calculate(template_dic)
    /\ UNCHANGED <<template_dic, extension_list>>

extension_list_generate ==
    /\ extension_list = <<>>
    /\ extension_list' = _extension_list_generate(template_dic)
    /\ UNCHANGED <<template_dic, cert_validity>>

(***************************************************************************)
(* poll of the local signing backend, which does not support polling       *)
(***************************************************************************)
VARIABLES lpollLog

lpollVars == <<lpollLog>>

\* poll calls of one behaviour
MaxLocalPolls == 2

\* poll handles a caller passes
LocalPollHandles == {None, "poll_identifier", "other"}

\* poll(_cert_name, poll_identifier, _csr), handle standing for poll_identifier, of the local signing backend:
\* return(error, cert_bundle, poll_identifier, rejected)
local_poll_result(cert_name, handle, csr) ==
    <<"Method not implemented.", None, handle, FALSE>>

LpollIdle == lpollLog = <<>>

LpollInit == lpollLog = <<>>

local_poll(cert_name, handle, csr) ==
    /\ Len(lpollLog) < MaxLocalPolls
    /\ lpollLog' = Append(lpollLog,
           [cert_name |-> cert_name, poll_identifier |-> handle, csr |-> csr,
            result |-> local_poll_result(cert_name, handle, csr)])

(***************************************************************************)
(* _pem_cert_chain_generate over a fixed set of records of the external    *)
(* CA: the answers to the GETs are those of the records, so that issuer    *)
(* references can lead back to a record already visited.                   *)
(***************************************************************************)
VARIABLES cert_records, ca_records, wpc, wcur, wlist

walkVars == <<cert_records, ca_records, wpc, wcur, wlist>>

\* certificate records and CA records the external CA holds
MaxCertRecords == 2
MaxCaRecords == 2

\* iterations of "while issuer_loop" that are followed
MaxWalk == 4

\* a certificate record: whether it has 'certificateBase64', and the CA
\* record its 'issuer' / 'issuerCa' link leads to (0: no such key)
CertRecords == [certificateBase64 : BOOLEAN, issuer : 0..MaxCaRecords]

\* a CA record: the certificate record of certificates.active (0: none)
CaRecords == [active : 0..MaxCertRecords]

WalkIdle ==
    /\ cert_records = <<>> /\ ca_records = <<>> /\ wpc = "idle" /\ wcur = 0
    /\ wlist = <<>>

WalkInit ==
    /\ cert_records \in [1..MaxCertRecords -> CertRecords]
    /\ ca_records \in [1..MaxCaRecords -> CaRecords]
    /\ wpc = "idle"
    /\ wcur = 0
    /\ wlist = <<>>

\* _pem_cert_chain_generate(cert_dic) called with certificate record 1
walk_generate ==
    /\ wpc = "idle"
    /\ wcur' = 1
    /\ wlist' = <<>>
    /\ wpc' = "loop"
    /\ UNCHANGED <<cert_records, ca_records>>

\* one iteration of "while issuer_loop"; wcur = 0 stands for cert_dic = {}
walk_iter ==
    /\ wpc = "loop"
    /\ Len(wlist) < MaxWalk
    /\ IF wcur = 0 \/ ~cert_records[wcur].certificateBase64
       THEN /\ wpc' = "after"
            /\ UNCHANGED <<wcur, wlist>>
       ELSE /\ wlist' = Append(wlist, wcur)
            /\ IF cert_records[wcur].issuer # 0
               THEN /\ wcur' = ca_records[cert_records[wcur].issuer].active
                    /\ wpc' = "loop"
               ELSE /\ wpc' = "after"
                    /\ UNCHANGED wcur
    /\ UNCHANGED <<cert_records, ca_records>>

\* pem_file is built and returned
walk_return ==
    /\ wpc = "after"
    /\ wpc' = "returned"
    /\ UNCHANGED <<cert_records, ca_records, wcur, wlist>>

(***************************************************************************)
(* DeviceTracker: concurrent track_bootstrap, track_enrollment and         *)
(* track_request calls.  Every "+= 1" is a read of the counter followed by *)
(* a write; the threads interleave between any two steps.                  *)
(***************************************************************************)
VARIABLES _lock, _devices, _stats, tpc, todo, reg, tracked_calls

trackerVars == <<_lock, _devices, _stats, tpc, todo, reg, tracked_calls>>

\* threads that call the tracker, and calls of one behaviour
MaxThreads == 2
MaxTrackerCalls == 3

Threads == 1..MaxThreads

DeviceIds == {"dev1", "dev2"}

\* self._stats of __init__, without server_start_time
InitialStats ==
    [total_requests |-> 0, bootstrap_requests |-> 0, enrollment_requests |-> 0,
     failed_requests |-> 0, certificates_issued |-> 0, bootstrap_certificates |-> 0,
     enrollment_certificates |-> 0]

\* the calls that went on to increment counters, by kind
NoCalls == [bootstrap |-> 0, enrollment |-> 0, request |-> 0, failed |-> 0]

TotalCalls == tracked_calls.bootstrap + tracked_calls.enrollment + tracked_calls.request

TrackerIdle ==
    /\ _lock = 0 /\ _devices = {} /\ _stats = InitialStats
    /\ tpc = <<>> /\ todo = <<>> /\ reg = <<>> /\ tracked_calls = NoCalls

TrackerInit ==
    /\ _lock = 0
    /\ _devices = {}
    /\ _stats = InitialStats
    /\ tpc = [t \in Threads |-> "idle"]
    /\ todo = [t \in Threads |-> <<>>]
    /\ reg = [t \in Threads |-> 0]
    /\ tracked_calls = NoCalls

\* a lock that every thread can take at any time
LockAlwaysFree == TRUE

\* "with self._lock": the lock can be taken
LockFree == _lock = 0

\* the counters a call increments, in the order of its statements
BootstrapCounters ==
    <<"bootstrap_requests", "total_requests", "bootstrap_certificates",
      "certificates_issued">>

EnrollmentCounters ==
    <<"enrollment_requests", "total_requests", "enrollment_certificates",
      "certificates_issued">>

\* track_bootstrap(device_id, ...): the lock is taken; a known device raises
\* ValueError, which releases the lock
track_bootstrap(t, device_id) ==
    /\ tpc[t] = "idle" /\ TotalCalls < MaxTrackerCalls
    /\ LockFree
    /\ IF device_id \in _devices
       THEN UNCHANGED <<_lock, _devices, tpc, todo, tracked_calls>>
       ELSE /\ _lock' = t
            /\ _devices' = _devices \cup {device_id}
            /\ todo' = [todo EXCEPT ![t] = BootstrapCounters]
            /\ tpc' = [tpc EXCEPT ![t] = "read"]
            /\ tracked_calls' = [tracked_calls EXCEPT !.bootstrap = @ + 1]
    /\ UNCHANGED <<_stats, reg>>

\* track_enrollment(device_id, serial): counts for a known device only
track_enrollment(t, device_id) ==
    /\ tpc[t] = "idle" /\ TotalCalls < MaxTrackerCalls
    /\ LockFree
    /\ IF device_id \in _devices
       THEN /\ _lock' = t
            /\ todo' = [todo EXCEPT ![t] = EnrollmentCounters]
            /\ tpc' = [tpc EXCEPT ![t] = "read"]
            /\ tracked_calls' = [tracked_calls EXCEPT !.enrollment = @ + 1]
       ELSE UNCHANGED <<_lock, tpc, todo, tracked_calls>>
    /\ UNCHANGED <<_devices, _stats, reg>>

\* track_request(request_type, success)
track_request(t, success) ==
    /\ tpc[t] = "idle" /\ TotalCalls < MaxTrackerCalls
    /\ LockFree
    /\ _lock' = t
    /\ todo' = [todo EXCEPT ![t] =
                   IF success THEN <<"total_requests">>
                   ELSE <<"total_requests", "failed_requests">>]
    /\ tpc' = [tpc EXCEPT ![t] = "read"]
    /\ tracked_calls' = [tracked_calls EXCEPT !.request = @ + 1,
                                              !.failed = IF success THEN @ ELSE @ + 1]
    /\ UNCHANGED <<_devices, _stats, reg>>

\* self._stats[k] += 1, first half: the value is read
stats_read(t) ==
    /\ tpc[t] = "read" /\ todo[t] # <<>>
    /\ reg' = [reg EXCEPT ![t] = _stats[Head(todo[t])]]
    /\ tpc' = [tpc EXCEPT ![t] = "write"]
    /\ UNCHANGED <<_lock, _devices, _stats, todo, tracked_calls>>

\* self._stats[k] += 1, second half: the value plus one is stored
stats_write(t) ==
    /\ tpc[t] = "write"
    /\ _stats' = [_stats EXCEPT ![Head(todo[t])] = reg[t] + 1]
    /\ todo' = [todo EXCEPT ![t] = Tail(@)]
    /\ tpc' = [tpc EXCEPT ![t] = "read"]
    /\ UNCHANGED <<_lock, _devices, reg, tracked_calls>>

\* _save_data() and the end of the with block: the lock is released
tracker_release(t) ==
    /\ tpc[t] = "read" /\ todo[t] = <<>>
    /\ _lock' = 0
    /\ tpc' = [tpc EXCEPT ![t] = "idle"]
    /\ UNCHANGED <<_devices, _stats, todo, reg, tracked_calls>>

(***************************************************************************)
(* The SRP user database: add_user, remove_user, change_password           *)
(***************************************************************************)
VARIABLES user_db, auth_call, auth_ops

authVars == <<user_db, auth_call, auth_ops>>

\* add_user, remove_user and change_password calls of one behaviour
MaxAuthOps == 3

AuthUsers == {"estuser", "device"}

\* a str with a lone surrogate, which str.encode() refuses
Unencodable == "lone-surrogate"

AuthPasswords == {"estpass123", "newpass", Unencodable}

\* values secrets.token_hex draws
Salts == {"salt", "salt2"}

\* password.encode() returns; it raises UnicodeEncodeError otherwise
Encodable(password) == password # Unencodable

NoAuthCall ==
    [op |-> "none", username |-> "", old_password |-> "", new_password |-> "",
     before |-> <<>>, result |-> FALSE]

\* add_user(username, password): <<database afterwards, value returned>>.
\* The hash is computed before the file is opened for appending; an
\* exception of either step is caught and gives False.
add_user(db, username, password, salt, append_ok) ==
    IF _get_user_verifier(db, username) # <<>> THEN <<db, FALSE>>
    ELSE IF ~Encodable(password) THEN <<db, FALSE>>
    ELSE IF ~append_ok THEN <<db, FALSE>>
    ELSE <<Append(db, <<username, salt, Pbkdf2(password, salt)>>), TRUE>>

\* remove_user(username): rewrites the file without the user's lines
remove_user(db, username) ==
    <<SelectSeq(db, LAMBDA line : line[1] # username), TRUE>>

\* change_password(username, old_password, new_password): authenticate,
\* then remove_user, then add_user, whose value is returned
change_password(db, username, old_password, new_password, salt, append_ok) ==
    IF ~authenticate(db, username, old_password) THEN <<db, FALSE>>
    ELSE add_user(remove_user(db, username)[1], username, new_password, salt, append_ok)

AuthIdle == user_db = <<>> /\ auth_call = NoAuthCall /\ auth_ops = 0

\* _ensure_user_db creates an empty database file
AuthInit == user_db = <<>> /\ auth_call = NoAuthCall /\ auth_ops = 0

add_user_call(username, password, salt, append_ok) ==
    /\ auth_ops < MaxAuthOps
    /\ LET r == add_user(user_db, username, password, salt, append_ok) IN
       /\ user_db' = r[1]
       /\ auth_call' = [op |-> "add_user", username |-> username, old_password |-> "",
                        new_password |-> password, before |-> user_db, result |-> r[2]]
    /\ auth_ops' = auth_ops + 1

remove_user_call(username) ==
    /\ auth_ops < MaxAuthOps
    /\ LET r == remove_user(user_db, username) IN
       /\ user_db' = r[1]
       /\ auth_call' = [op |-> "remove_user", username |-> username, old_password |-> "",
                        new_password |-> "", before |-> user_db, result |-> r[2]]
    /\ auth_ops' = auth_ops + 1

change_password_call(username, old_password, new_password, salt, append_ok) ==
    /\ auth_ops < MaxAuthOps
    /\ LET r == change_password(user_db, username, old_password, new_password,
                                salt, append_ok) IN
       /\ user_db' = r[1]
       /\ auth_call' = [op |-> "change_password", username |-> username,
                        old_password |-> old_password, new_password |-> new_password,
                        before |-> user_db, result |-> r[2]]
    /\ auth_ops' = auth_ops + 1

(***************************************************************************)
(* Specifications                                                          *)
(***************************************************************************)
vars == <<pollVars, policyVars, localVars, driverVars, revokeVars, chainVars, decodeVars, respVars, xdbVars, templateVars, lpollVars, walkVars, trackerVars, authVars>>

PollIdle ==
    /\ polling_timeout = 60 /\ epc = "idle" /\ request_url = None /\ cnt = 0
    /\ poll_cnt = 0 /\ error = None /\ cert_bundle = None /\ cert_raw = None
    /\ poll_identifier = Unbound /\ broke = FALSE /\ pollLog = <<>> /\ slept = 0
    /\ enrollResult = None /\ enrolls = 0 /\ pollArg = None /\ pollResult = None

\* the steps of one area leave the state of the others alone
PollFrame == UNCHANGED <<policyVars, localVars, driverVars, revokeVars, chainVars, decodeVars, respVars, xdbVars, templateVars, lpollVars, walkVars, trackerVars, authVars>>

PolicyFrame == UNCHANGED <<pollVars, localVars, driverVars, revokeVars, chainVars, decodeVars, respVars, xdbVars, templateVars, lpollVars, walkVars, trackerVars, authVars>>

LocalFrame == UNCHANGED <<pollVars, policyVars, driverVars, revokeVars, chainVars, decodeVars, respVars, xdbVars, templateVars, lpollVars, walkVars, trackerVars, authVars>>

DriverFrame == UNCHANGED <<pollVars, policyVars, localVars, revokeVars, chainVars, decodeVars, respVars, xdbVars, templateVars, lpollVars, walkVars, trackerVars, authVars>>

PollSpecInit == PollInit /\ PolicyIdle /\ LocalIdle /\ DriverIdle /\ RevokeIdle /\ ChainIdle /\ DecodeIdle /\ RespIdle /\ XdbIdle /\ TemplateIdle /\ LpollIdle /\ WalkIdle /\ TrackerIdle /\ AuthIdle

PollNext ==
    \/ \E d \in CertDics, href \in Handles : enroll_submit(d, href) /\ PollFrame
    \/ \E r \in PollResponses : _loop_poll_iter(r) /\ PollFrame
    \/ _loop_poll_return /\ PollFrame
    \/ \E pi \in Handles \cup {None}, r \in PollResponses : poll(pi, r) /\ PollFrame

\* the external polling backend
PollSpec == PollSpecInit /\ [][PollNext]_vars

PolicySpecInit == PolicyInit /\ PollIdle /\ LocalIdle /\ DriverIdle /\ RevokeIdle /\ ChainIdle /\ DecodeIdle /\ RespIdle /\ XdbIdle /\ TemplateIdle /\ LpollIdle /\ WalkIdle /\ TrackerIdle /\ AuthIdle

PolicyNext ==
    \/ list_check_apply /\ PolicyFrame
    \/ string_wlbl_check_apply /\ PolicyFrame

\* the policy functions on bounded inputs
PolicySpec == PolicySpecInit /\ [][PolicyNext]_vars

LocalSpecInit == LocalInit /\ PollIdle /\ PolicyIdle /\ DriverIdle /\ RevokeIdle /\ ChainIdle /\ DecodeIdle /\ RespIdle /\ XdbIdle /\ TemplateIdle /\ LpollIdle /\ WalkIdle /\ TrackerIdle /\ AuthIdle

LocalNext ==
    \/ \E f \in ConfigFiles : local_enter(f) /\ LocalFrame
    \/ \E csr \in Csrs, fault \in Faults : local_enroll(csr, fault) /\ LocalFrame

\* the local signing backend
LocalSpec == LocalSpecInit /\ [][LocalNext]_vars

DriverSpecInit == DriverInit /\ PollIdle /\ PolicyIdle /\ LocalIdle /\ RevokeIdle /\ ChainIdle /\ DecodeIdle /\ RespIdle /\ XdbIdle /\ TemplateIdle /\ LpollIdle /\ WalkIdle /\ TrackerIdle /\ AuthIdle

DriverNext ==
    \/ \E path \in HandlerPaths, srp \in {None, "estuser", "mallory"},
          cert \in BOOLEAN, data \in BOOLEAN,
          form \in {<<"", "", "">>, <<"estuser", "estpass123", "">>},
          outcome \in EnrollOutcomes, p7ok \in BOOLEAN :
           post_process(path, srp, cert, data, form, outcome, p7ok) /\ DriverFrame
    \/ \E cr \in Credentials, cert \in BOOLEAN, data \in BOOLEAN, caOk \in BOOLEAN,
          dup \in BOOLEAN :
           est_bootstrap(cr, cert, data, caOk, dup) /\ DriverFrame
    \/ \E path \in {"/.well-known/est/simpleenroll", "/.well-known/est/simplereenroll"},
          cr \in Credentials, cert \in BOOLEAN, data \in BOOLEAN, caOk \in BOOLEAN :
           simple_enrollment(path, cr, cert, data, caOk) /\ DriverFrame
    \/ \E form \in Forms, cert \in BOOLEAN, caOk \in BOOLEAN, dup \in BOOLEAN :
           bootstrap_authenticate(form, cert, caOk, dup) /\ DriverFrame

\* the protocol drivers
DriverSpec == DriverSpecInit /\ [][DriverNext]_vars

RevokeFrame == UNCHANGED <<pollVars, policyVars, localVars, driverVars, chainVars, decodeVars, respVars, xdbVars, templateVars, lpollVars, walkVars, trackerVars, authVars>>

RevokeSpecInit == RevokeInit /\ PollIdle /\ PolicyIdle /\ LocalIdle /\ DriverIdle /\ ChainIdle /\ DecodeIdle /\ RespIdle /\ XdbIdle /\ TemplateIdle /\ LpollIdle /\ WalkIdle /\ TrackerIdle /\ AuthIdle

RevokeNext ==
    \E cert \in RevokeCerts, reason \in RevokeReasons :
        revoke_certificate(cert, reason) /\ RevokeFrame

\* revocation
RevokeSpec == RevokeSpecInit /\ [][RevokeNext]_vars

ChainFrame == UNCHANGED <<pollVars, policyVars, localVars, driverVars, revokeVars, decodeVars, respVars, xdbVars, templateVars, lpollVars, walkVars, trackerVars, authVars>>

ChainSpecInit == ChainInit /\ PollIdle /\ PolicyIdle /\ LocalIdle /\ DriverIdle /\ RevokeIdle /\ DecodeIdle /\ RespIdle /\ XdbIdle /\ TemplateIdle /\ LpollIdle /\ WalkIdle /\ TrackerIdle /\ AuthIdle

ChainNext ==
    \/ \E d \in ChainCertDics : chain_generate(d) /\ ChainFrame
    \/ \E ca \in CaDics, nxt \in ChainCertDics : chain_iter(ca, nxt) /\ ChainFrame
    \/ chain_return /\ ChainFrame

\* chain reconstruction
ChainSpec == ChainSpecInit /\ [][ChainNext]_vars

DecodeFrame == UNCHANGED <<pollVars, policyVars, localVars, driverVars, revokeVars, chainVars, respVars, xdbVars, templateVars, lpollVars, walkVars, trackerVars, authVars>>

DecodeSpecInit == DecodeInit /\ PollIdle /\ PolicyIdle /\ LocalIdle /\ DriverIdle /\ RevokeIdle /\ ChainIdle /\ RespIdle /\ XdbIdle /\ TemplateIdle /\ LpollIdle /\ WalkIdle /\ TrackerIdle /\ AuthIdle

DecodeNext ==
    \/ do_POST_headers /\ DecodeFrame
    \/ do_POST_chunk_size /\ DecodeFrame
    \/ do_POST_chunk_line /\ DecodeFrame

\* request body decoding
DecodeSpec == DecodeSpecInit /\ [][DecodeNext]_vars

RespFrame == UNCHANGED <<pollVars, policyVars, localVars, driverVars, revokeVars, chainVars, decodeVars, xdbVars, templateVars, lpollVars, walkVars, trackerVars, authVars>>

RespSpecInit == RespInit /\ PollIdle /\ PolicyIdle /\ LocalIdle /\ DriverIdle /\ RevokeIdle /\ ChainIdle /\ DecodeIdle /\ XdbIdle /\ TemplateIdle /\ LpollIdle /\ WalkIdle /\ TrackerIdle /\ AuthIdle

RespNext ==
    \/ \E accept \in Accepts : get_ca_certs(accept) /\ RespFrame
    \/ \E cert \in RespCerts, accept \in Accepts : est_bootstrap_response(cert, accept) /\ RespFrame
    \/ \E path \in {"/.well-known/est/simpleenroll", "/.well-known/est/simplereenroll"},
          cert \in RespCerts, accept \in Accepts :
            simple_enrollment_response(path, cert, accept) /\ RespFrame

RespSpec == RespSpecInit /\ [][RespNext]_vars

XdbFrame == UNCHANGED <<pollVars, policyVars, localVars, driverVars, revokeVars, chainVars, decodeVars, respVars, templateVars, lpollVars, walkVars, trackerVars, authVars>>

XdbSpecInit == XdbInit /\ PollIdle /\ PolicyIdle /\ LocalIdle /\ DriverIdle /\ RevokeIdle /\ ChainIdle /\ DecodeIdle /\ RespIdle /\ TemplateIdle /\ LpollIdle /\ WalkIdle /\ TrackerIdle /\ AuthIdle

XdbNext ==
    \E csr \in XcaCsrs, request_name \in RequestNames :
        _csr_import(csr, request_name) /\ XdbFrame

XdbSpec == XdbSpecInit /\ [][XdbNext]_vars

TemplateFrame == UNCHANGED <<pollVars, policyVars, localVars, driverVars, revokeVars, chainVars, decodeVars, respVars, xdbVars, lpollVars, walkVars, trackerVars, authVars>>

TemplateSpecInit == TemplateInit /\ PollIdle /\ PolicyIdle /\ LocalIdle /\ DriverIdle /\ RevokeIdle /\ ChainIdle /\ DecodeIdle /\ RespIdle /\ XdbIdle /\ LpollIdle /\ WalkIdle /\ TrackerIdle /\ AuthIdle

TemplateNext ==
    \/ validity_calculate /\ TemplateFrame
    \/ extension_list_generate /\ TemplateFrame

TemplateSpec == TemplateSpecInit /\ [][TemplateNext]_vars

LpollFrame == UNCHANGED <<pollVars, policyVars, localVars, driverVars, revokeVars, chainVars, decodeVars, respVars, xdbVars, templateVars, walkVars, trackerVars, authVars>>

LpollSpecInit == LpollInit /\ PollIdle /\ PolicyIdle /\ LocalIdle /\ DriverIdle /\ RevokeIdle /\ ChainIdle /\ DecodeIdle /\ RespIdle /\ XdbIdle /\ TemplateIdle /\ WalkIdle /\ TrackerIdle /\ AuthIdle

LpollNext ==
    \E cert_name \in {"cert_name", "other"}, handle \in LocalPollHandles,
       csr \in {"csr", "csr2"} :
        local_poll(cert_name, handle, csr) /\ LpollFrame

LpollSpec == LpollSpecInit /\ [][LpollNext]_vars

WalkFrame == UNCHANGED <<pollVars, policyVars, localVars, driverVars, revokeVars, chainVars, decodeVars, respVars, xdbVars, templateVars, lpollVars, trackerVars, authVars>>

WalkSpecInit == WalkInit /\ PollIdle /\ PolicyIdle /\ LocalIdle /\ DriverIdle /\ RevokeIdle /\ ChainIdle /\ DecodeIdle /\ RespIdle /\ XdbIdle /\ TemplateIdle /\ LpollIdle /\ TrackerIdle /\ AuthIdle

WalkNext ==
    \/ walk_generate /\ WalkFrame
    \/ walk_iter /\ WalkFrame
    \/ walk_return /\ WalkFrame

WalkSpec == WalkSpecInit /\ [][WalkNext]_vars

TrackerFrame == UNCHANGED <<pollVars, policyVars, localVars, driverVars, revokeVars, chainVars, decodeVars, respVars, xdbVars, templateVars, lpollVars, walkVars, authVars>>

TrackerSpecInit == TrackerInit /\ PollIdle /\ PolicyIdle /\ LocalIdle /\ DriverIdle /\ RevokeIdle /\ ChainIdle /\ DecodeIdle /\ RespIdle /\ XdbIdle /\ TemplateIdle /\ LpollIdle /\ WalkIdle /\ AuthIdle

TrackerNext ==
    \/ \E t \in Threads, device_id \in DeviceIds : track_bootstrap(t, device_id) /\ TrackerFrame
    \/ \E t \in Threads, device_id \in DeviceIds : track_enrollment(t, device_id) /\ TrackerFrame
    \/ \E t \in Threads, success \in BOOLEAN : track_request(t, success) /\ TrackerFrame
    \/ \E t \in Threads : stats_read(t) /\ TrackerFrame
    \/ \E t \in Threads : stats_write(t) /\ TrackerFrame
    \/ \E t \in Threads : tracker_release(t) /\ TrackerFrame

TrackerSpec == TrackerSpecInit /\ [][TrackerNext]_vars

AuthFrame == UNCHANGED <<pollVars, policyVars, localVars, driverVars, revokeVars, chainVars, decodeVars, respVars, xdbVars, templateVars, lpollVars, walkVars, trackerVars>>

AuthSpecInit == AuthInit /\ PollIdle /\ PolicyIdle /\ LocalIdle /\ DriverIdle /\ RevokeIdle /\ ChainIdle /\ DecodeIdle /\ RespIdle /\ XdbIdle /\ TemplateIdle /\ LpollIdle /\ WalkIdle /\ TrackerIdle

AuthNext ==
    \/ \E username \in AuthUsers, password \in AuthPasswords, salt \in Salts,
          append_ok \in BOOLEAN :
        add_user_call(username, password, salt, append_ok) /\ AuthFrame
    \/ \E username \in AuthUsers : remove_user_call(username) /\ AuthFrame
    \/ \E username \in AuthUsers, old_password \in AuthPasswords,
          new_password \in AuthPasswords, salt \in Salts, append_ok \in BOOLEAN :
        change_password_call(username, old_password, new_password, salt, append_ok)
        /\ AuthFrame

AuthSpec == AuthSpecInit /\ [][AuthNext]_vars

(***************************************************************************)
(* Properties of the external polling backend                              *)
(***************************************************************************)
\* responses that are a terminal outcome of a poll step
Terminal == {"accepted_cert", "rejected"}

\* responses without a status field or with a status other than accepted/rejected
Ambiguous == {"nostatus", "unknown"}

\* responses for which the GET itself raised
Raising == {"exc", "exc_cert"}

LastPoll == pollLog[Len(pollLog)]

Polled(S) == \E i \in 1..Len(pollLog) : pollLog[i] \in S

OnlyPolled(S) == Len(pollLog) > 0 /\ \A i \in 1..Len(pollLog) : pollLog[i] \in S

\* C3: when the submission is pending and a poll of the handle answers
\* rejected, no further poll is sent after that response and enroll returns
\* the terminal error with no certificate and a null handle.
C3_RejectedIsTerminal ==
    Polled({"rejected"}) =>
        /\ LastPoll = "rejected"
        /\ \A i \in 1..Len(pollLog) - 1 : pollLog[i] # "rejected"
        /\ epc \in {"loop", "returned"}
        /\ epc = "loop" => broke /\ ENABLED _loop_poll_return
        /\ epc = "returned" =>
               enrollResult = <<"Request rejected by operator", None, None>>

\* a pending enroll that was rejected on its second poll has returned
C3_Witness ==
    /\ epc = "returned"
    /\ Len(pollLog) = 2
    /\ pollLog[1] = "accepted"
    /\ pollLog[2] = "rejected"
    /\ enrollResult = <<"Request rejected by operator", None, None>>

\* C4 (as claimed): after any poll step, in enroll's loop or in the
\* externally-driven poll, the returned handle is null exactly when the step
\* was terminal and otherwise equals the handle polled.
C4_HandleNullIffTerminal ==
    /\ (epc = "loop" /\ Len(pollLog) > 0) =>
           poll_identifier = (IF LastPoll \in Terminal THEN None ELSE request_url)
    /\ (pollResult # None /\ pollResult # "raised" /\ Truthy(pollArg[1])) =>
           pollResult[4] = (IF pollArg[2] \in Terminal THEN None ELSE pollArg[1])

\* C4 (amended): a step of enroll's loop leaves a null handle exactly when it
\* was terminal and the polled handle otherwise, and enroll returns that
\* handle; the externally-driven poll returns the handle it was given after
\* every response and reports a rejection in its rejected flag only.
C4_HandleAfterPollStep ==
    /\ (epc = "loop" /\ Len(pollLog) > 0) =>
           poll_identifier = (IF LastPoll \in Terminal THEN None ELSE request_url)
    /\ (epc = "returned" /\ Len(pollLog) > 0) =>
           enrollResult[3] = (IF LastPoll \in Terminal THEN None ELSE request_url)
    /\ (pollResult # None /\ pollResult # "raised") =>
           /\ pollResult[4] = pollArg[1]
           /\ Truthy(pollArg[1]) => (pollResult[5] <=> pollArg[2] = "rejected")

\* the loop ended on an issued certificate with a null handle, and an
\* externally-driven poll that was rejected kept its handle
C4_Witness ==
    /\ epc = "returned"
    /\ Len(pollLog) > 0
    /\ LastPoll = "accepted_cert"
    /\ enrollResult[3] = None
    /\ pollResult # None
    /\ pollArg = <<"url1", "rejected">>
    /\ pollResult[4] = "url1"

\* C5 (as claimed): a response without a status, or with an unknown status,
\* produces a non-null error and preserves the handle, in the
\* externally-driven poll and in enroll's loop alike; an enroll whose polls
\* see only such responses ends with an error and the retained handle.
C5_AmbiguousGivesError ==
    /\ (pollResult # None /\ Truthy(pollArg[1]) /\ pollArg[2] \in Ambiguous) =>
           pollResult[1] # None /\ pollResult[4] = pollArg[1]
    /\ (epc = "loop" /\ Len(pollLog) > 0 /\ LastPoll \in Ambiguous) =>
           error # None /\ poll_identifier = request_url
    /\ (epc = "returned" /\ OnlyPolled(Ambiguous)) =>
           enrollResult[1] # None /\ enrollResult[3] = request_url

\* C5 (amended): such a response always preserves the handle; the
\* externally-driven poll produces a non-null error for it, while an iteration
\* of enroll's loop sets no error for it, so an enroll whose polls see only
\* such responses ends with the retained handle and without an error.
C5_AmbiguousKeepsHandle ==
    /\ (pollResult # None /\ Truthy(pollArg[1]) /\ pollArg[2] \in Ambiguous) =>
           pollResult[1] # None /\ pollResult[4] = pollArg[1] /\ ~pollResult[5]
    /\ (epc = "loop" /\ Len(pollLog) > 0 /\ LastPoll \in Ambiguous) =>
           poll_identifier = request_url
    /\ (epc = "loop" /\ OnlyPolled(Ambiguous)) => error = None
    /\ (epc = "returned" /\ OnlyPolled(Ambiguous)) =>
           enrollResult = <<None, None, request_url>>

\* an enroll that used its whole budget of two polls on such responses has
\* returned, and an externally-driven poll saw an unknown status
C5_Witness ==
    /\ epc = "returned"
    /\ pollLog = <<"nostatus", "unknown">>
    /\ enrollResult = <<None, None, "url1">>
    /\ pollResult # None
    /\ pollArg = <<"url1", "unknown">>
    /\ pollResult[1] # None

\* C6: for every polling_timeout, enroll's loop sends at most
\* ceil(polling_timeout / 5) polls, exactly that many when no poll is
\* terminal, none after a terminal one, and then returns its result (it ends
\* by an exception only when a GET raised).
C6_BoundedLoopReturns ==
    Truthy(request_url) =>
        /\ Len(pollLog) <= PollCnt(polling_timeout)
        /\ \A i \in 1..Len(pollLog) - 1 : pollLog[i] \notin Terminal
        /\ (epc = "returned" /\ ~Polled(Terminal)) =>
               Len(pollLog) = PollCnt(polling_timeout)
        /\ epc = "raised" => Polled(Raising)

(***************************************************************************)
(* Properties of the local signing backend and of its CSR policy           *)
(***************************************************************************)
BadCsr == <<"urn:ietf:params:acme:badCSR", None, None>>

\* the last enroll passed the configuration check and reached the CSR policy
PolicyReached == lresult # None /\ lresult # "raised" /\ _config_check(h) = None

\* C7: for every whitelist/blacklist configuration, enroll issues a
\* certificate only for a CSR the CSR policy accepts, and a CSR the policy
\* rejects yields the bad-CSR error with no certificate and no poll handle.
C7_IssuesOnlyForAcceptedCsr ==
    PolicyReached =>
        IF PolicyAccepts(lcsr, h.whitelist, h.blacklist)
        THEN TRUE
        ELSE lresult = BadCsr

\* C8: a CSR whose CN matches a blacklist pattern is rejected by the CSR
\* policy, whatever the whitelist contains.
C8_BlacklistedCnRejected ==
    (PolicyReached /\ CnBlacklisted(lcsr, h.blacklist)) => lresult = BadCsr

\* c = u \o t for some u
EndsWith(c, t) == \E n \in 0..Len(c) : c = SubSeq(c, 1, n) \o t

\* c = u \o t \o v for some u and v
Contains(c, t) ==
    \E n \in 0..Len(c), m \in 0..Len(c) :
        n <= m /\ c = SubSeq(c, 1, n) \o t \o SubSeq(c, m + 1, Len(c))

C10_NoCandidateRejected ==
    (PolicyReached /\ Len(Candidates(lcsr)) = 0) => lresult = BadCsr

(***************************************************************************)
(* Properties of the protocol drivers                                      *)
(***************************************************************************)
\* the session of the request carries a password identity: an SRP user name
\* (ESTSrvHandler) or credentials the user database verifies (ESTServer)
HasPasswordIdentity(rq) ==
    \/ rq.srpUsername # None
    \/ rq.credentials # <<>> /\ authenticate(userDb, rq.credentials[1], rq.credentials[2])
    \/ rq.driver = "server" /\ rq.form[1] # ""
       /\ authenticate(userDb, rq.form[1], rq.form[2])

\* a POST to a bootstrap endpoint of either driver
IsBootstrapPost(rq) ==
    \/ rq.driver = "est_handler" /\ IsBootstrapPath(rq.path)
    \/ rq.driver = "server"
       /\ rq.path \in {"/.well-known/est/bootstrap",
                       "/.well-known/est/bootstrap/authenticate"}

\* the bootstrap paths that are not the form pages of the bootstrap login
IsBootstrapEndpoint(rq) ==
    /\ IsBootstrapPost(rq)
    /\ rq.path \notin {"/bootstrap/login", "/.well-known/est/bootstrap/authenticate"}

\* C1: a POST to a bootstrap path is treated as authenticated only if the
\* session carries a password identity, and nothing is enrolled for a request
\* that is not authenticated; a request that offers a client certificate and
\* no password identity is not authenticated and nothing is enrolled for it,
\* and on the bootstrap endpoint it is answered 401 when it offers no
\* credentials at all.
C1_BootstrapPasswordOnly ==
    IsBootstrapPost(dreq) =>
        /\ dresp.authenticated => HasPasswordIdentity(dreq)
        /\ dresp.enrolled => dresp.authenticated
        /\ (dreq.clientCert /\ ~HasPasswordIdentity(dreq)) =>
               /\ ~dresp.authenticated
               /\ ~dresp.enrolled
               /\ dresp.code \in {400, 401, 500}
               /\ (IsBootstrapEndpoint(dreq) /\ dreq.credentials = <<>>) =>
                      dresp.code = 401

\* a bootstrap POST with a client certificate and no password identity was
\* answered 401 and nothing was enrolled
C1_Witness ==
    /\ dreq.driver = "est_handler"
    /\ dreq.path = "/.well-known/est/bootstrap"
    /\ dreq.clientCert
    /\ dreq.srpUsername = None
    /\ dreq.data
    /\ dresp.code = 401
    /\ caCalls = 0

\* C2: a POST to simple-enroll or simple-re-enroll is authenticated whenever
\* the session carries a password identity or a client-certificate identity,
\* and is refused as an authentication failure only when it carries neither.
C2_PasswordOrCertificate ==
    (dreq.driver # "none" /\ IsEnrollPath(dreq.path)) =>
        /\ (HasPasswordIdentity(dreq) \/ dreq.clientCert) => dresp.authenticated
        /\ dresp.code = 401 => ~(HasPasswordIdentity(dreq) \/ dreq.clientCert)

(***************************************************************************)
(* Properties of revocation                                                *)
(***************************************************************************)
\* C11: the first revoke call for a serial succeeds, and a later revoke call
\* for the same serial does not report success again (it returns the
\* already-revoked error).
C11_SecondRevokeAlreadyRevoked ==
    \A j \in 1..Len(revokeLog) :
        LET earlier == {i \in 1..(j - 1) : revokeLog[i][1].serial = revokeLog[j][1].serial}
        IN IF earlier = {} THEN revokeLog[j][3] ELSE ~revokeLog[j][3]

\* C12: revoke never reports success for a certificate that does not verify
\* against the CA, and records no revocation for it.
C12_NoSuccessWithoutVerification ==
    \A j \in 1..Len(revokeLog) :
        ~revokeLog[j][1].verifies =>
            /\ ~revokeLog[j][3]
            /\ revokeLog[j][1].serial \notin revoked

(***************************************************************************)
(* Properties of the local signing backend: configuration and files        *)
(***************************************************************************)
\* a mandatory setting of the instance is missing or names a missing file
MandatoryDefect(hd) ==
    \/ hd.issuer_dict.issuing_ca_key \in {None, "nofile"}
    \/ hd.issuer_dict.issuing_ca_cert \in {None, "nofile"}
    \/ hd.issuer_dict.issuing_ca_crl \in {None, "nofile"}
    \/ hd.ca_cert_chain_list = "empty"

\* C13: if a mandatory setting (issuing key, issuing certificate, CRL or
\* chain list) is missing or names a file that does not exist, enroll returns
\* a configuration error with no certificate and no poll handle, and the
\* issuing key has not been read.
C13_ConfigErrorBeforeKey ==
    (lresult # None /\ MandatoryDefect(h)) =>
        /\ lresult # "raised"
        /\ lresult[1] # None /\ lresult[2] = None /\ lresult[3] = None
        /\ ~keyRead

\* C14: within one handler instance the configuration is loaded on the first
\* scope entry and never again: no step loads it once it has been loaded.
C14_ConfigLoadedOnce ==
    [][(entered /\ loads > 0) => loads' = loads]_vars

\* C15: whenever enroll returns an error it returns no certificate, and it
\* has written no certificate file to the save path.
C15_ErrorLeavesNoCertificate ==
    [][(lresult' # None /\ lresult' # "raised" /\ lresult'[1] # None) =>
           (lresult'[2] = None /\ files' = files)]_vars

(***************************************************************************)
(* Properties of the chain reconstruction                                  *)
(***************************************************************************)
\* the issuer hops that resolved to a record carrying certificate bytes
ResolvedHops == SelectSeq(hops, LAMBDA d : d.certificateBase64 # None)

\* C16: for a leaf record that carries certificate bytes the returned chain
\* lists the leaf first, then the active certificate of each issuer in hop
\* order, and its length is 1 plus the number of issuer hops that resolved to
\* a record carrying certificate bytes.
C16_LeafFirstThenIssuers ==
    (cpc = "returned" /\ leaf.certificateBase64 # None) =>
        /\ pem_file # None
        /\ Len(pem_file) = 1 + Len(ResolvedHops)
        /\ pem_file[1] = PemBlock(leaf.certificateBase64)
        /\ \A i \in 1..Len(ResolvedHops) :
               pem_file[i + 1] = PemBlock(ResolvedHops[i].certificateBase64)

\* a chain of three certificates has been returned: leaf A, then B, then A
C16_Witness ==
    /\ cpc = "returned"
    /\ pem_file # None
    /\ pem_file = <<PemBlock("A"), PemBlock("B"), PemBlock("A")>>
    /\ Len(hops) = 3

(***************************************************************************)
(* Properties of the request body decoding                                 *)
(***************************************************************************)
\* the decoding of the body has ended, with a payload or without
DecodeEnded == dpc \in {"done", "raised", "blocked"}

\* C17: for every chunked request body the decoded payload is the
\* concatenation, in order and byte for byte, of the data of its chunks; the
\* body 5 CR LF hello CR LF 0 CR LF CR LF decodes to hello.
C17_PayloadIsChunkData ==
    (body.mode = "chunked" /\ body.framing = "rfc" /\ body.trailer = <<>>
     /\ DecodeEnded) =>
        /\ dpc = "done"
        /\ post_data = Concat(body.chunks)

\* C18: chunked decoding does not end before a zero-size chunk has been read,
\* and once the zero-size chunk has been read nothing is added to the payload.
C18_ZeroChunkEndsDecoding ==
    [][/\ (dpc' = "done" /\ body.mode = "chunked") => chunk_length' = 0
       /\ (dpc = "data" /\ chunk_length = 0) => post_data' = post_data]_vars

(***************************************************************************)
(* Properties of the certificate-bearing responses                         *)
(***************************************************************************)

\* C19: the encoding of every certificate-bearing response follows the
\* response_format setting: in der mode the body is the raw DER PKCS#7 and
\* no Content-Transfer-Encoding header is sent, in base64 mode the body is
\* base64 text and the header is sent.
C19_EncodingFollowsResponseFormat ==
    \A i \in 1..Len(wire) :
        IF response_format = "der"
        THEN /\ wire[i].content.enc = "der"
             /\ "Content-Transfer-Encoding" \notin HeaderNames(wire[i].headers)
        ELSE /\ wire[i].content.enc = "base64"
             /\ <<"Content-Transfer-Encoding", "base64">> \in wire[i].headers

(***************************************************************************)
(* Properties of the poll loop's delays                                    *)
(***************************************************************************)

\* C20: within one enroll call on the external polling backend the total
\* time spent in the delays of the poll loop never exceeds polling_timeout
\* seconds.
C20_DelaysWithinPollingTimeout == slept <= polling_timeout

(***************************************************************************)
(* Properties of the embedded database backend                             *)
(***************************************************************************)

\* C21: after any sequence of enrollments there is at most one CSR record
\* per request name, and an import under a name that has a record already
\* returns that record and inserts none.
C21_OneCsrRecordPerName ==
    /\ \A i, j \in 1..Len(requests_table) :
           items[requests_table[i].item] = items[requests_table[j].item] => i = j
    /\ \A k \in 1..Len(importLog) :
           LET first == CHOOSE f \in 1..k :
                            /\ importLog[f][1] = importLog[k][1]
                            /\ \A g \in 1..(f - 1) : importLog[g][1] # importLog[k][1]
           IN importLog[k][3] = importLog[first][3]

C21_Witness ==
    /\ Len(importLog) = 3 /\ Len(requests_table) = 1
    /\ importLog[1][2] # importLog[2][2]

(***************************************************************************)
(* Properties of the certificate templates                                 *)
(***************************************************************************)

\* the template has no ca, key-usage, extended-key-usage or CRL setting
NoExtensionSettings(t) ==
    /\ ~In("ca", t) /\ ~In("keyUse", t)
    /\ (~In("eKeyUse", t) \/ t.eKeyUse = None)
    /\ (~In("crlDist", t) \/ t.crlDist = None)

\* C22, as the specification states it: for a template without ca,
\* key-usage, extended-key-usage and CRL setting, the template without any
\* setting included, the extension list is exactly subject-key-id and
\* authority-key-id.
C22_OnlyKeyIdentifiers ==
    (extension_list # <<>> /\ NoExtensionSettings(template_dic)) =>
        extension_list = <<SubjectKeyId, AuthorityKeyId>>

\* C22, amended: this holds for a template that has at least one setting;
\* the template without any setting gets, after the two identifiers, the
\* defaults critical keyUsage digitalSignature,keyEncipherment, critical
\* basicConstraints CA:FALSE and extendedKeyUsage serverAuth.
C22_OnlyKeyIdentifiersUnlessEmpty ==
    (extension_list # <<>> /\ NoExtensionSettings(template_dic)) =>
        IF TemplateNonEmpty(template_dic)
        THEN extension_list = <<SubjectKeyId, AuthorityKeyId>>
        ELSE extension_list =
                 <<SubjectKeyId, AuthorityKeyId,
                   <<"keyUsage", TRUE, <<"digitalSignature", "keyEncipherment">> >>,
                   <<"basicConstraints", TRUE, "CA:FALSE">>,
                   <<"extendedKeyUsage", FALSE, "serverAuth">> >>

C22_Witness ==
    /\ template_dic = [EmptyTemplate EXCEPT !.foo = "bar"]
    /\ extension_list = <<SubjectKeyId, AuthorityKeyId>>

\* C23: validity is count days for unit-type 0, count x 30 for unit-type 1,
\* count x 365 for unit-type 2, and 365 days when the unit-type or the
\* unit-count setting is missing.
C23_ValidityDays ==
    cert_validity # -1 =>
        LET t == template_dic IN
        /\ (t.validM = Absent \/ t.validN = Absent) => cert_validity = 365
        /\ (t.validM = "0" /\ t.validN = "10") => cert_validity = 10
        /\ (t.validM = "1" /\ t.validN = "10") => cert_validity = 300
        /\ (t.validM = "2" /\ t.validN = "2") => cert_validity = 730
        /\ \A n \in {"2", "10"} :
              t.validN = n =>
                  /\ t.validM = "0" => cert_validity = int(n)
                  /\ t.validM = "1" => cert_validity = int(n) * 30
                  /\ t.validM = "2" => cert_validity = int(n) * 365

C23_Witness ==
    /\ template_dic.validM = "1" /\ template_dic.validN = "10"
    /\ cert_validity = 300

(***************************************************************************)
(* Properties of poll on a backend without polling                         *)
(***************************************************************************)

\* C24: poll of a backend that does not support polling returns five
\* fields: the error 'Method not implemented.', no chain, no raw
\* certificate, the handle it was given, and rejected false.
C24_PollNotImplementedFiveFields ==
    \A i \in 1..Len(lpollLog) :
        /\ Len(lpollLog[i].result) = 5
        /\ lpollLog[i].result[1] = "Method not implemented."
        /\ lpollLog[i].result[2] = None
        /\ lpollLog[i].result[3] = None
        /\ lpollLog[i].result[4] = lpollLog[i].poll_identifier
        /\ lpollLog[i].result[5] = FALSE

(***************************************************************************)
(* Issuance and authentication in the protocol drivers                     *)
(***************************************************************************)

\* the request carries an identity that its endpoint accepts: a password
\* identity, or on the enrollment paths of ESTSrvHandler a client certificate
PassesEndpointCheck(rq) ==
    \/ HasPasswordIdentity(rq)
    \/ rq.driver = "est_handler" /\ IsEnrollPath(rq.path) /\ rq.clientCert

C26_NoErrorNoHandleGivesCertificate ==
    (epc = "returned" /\ enrollResult # None) =>
        /\ (enrollResult[1] = None /\ enrollResult[3] = None) => enrollResult[2] # None
        /\ (Len(pollLog) > 0 /\ LastPoll = "accepted_cert") => enrollResult[2] # None

(***************************************************************************)
(* Termination of chain reconstruction                                     *)
(***************************************************************************)

\* C27: chain reconstruction terminates for every set of CA records, cycles
\* of issuer references included.  The next record is a function of the
\* current one, so the walk ends exactly if it never comes back to a record
\* it has appended already.
C27_ChainWalkTerminates ==
    \A i, j \in 1..Len(wlist) : wlist[i] = wlist[j] => i = j

(***************************************************************************)
(* The response to a POST                                                  *)
(***************************************************************************)

\* the responses do_POST has written: _post_process and _set_response follow
\* the decoding of the body, and are reached only when it ends normally
set_response_calls == IF dpc = "done" THEN 1 ELSE 0

\* C28: every POST receives exactly one HTTP response, whatever its framing:
\* Content-Length, chunked, neither of the two, or a chunk-size line that is
\* not valid hexadecimal.
C28_EveryPostAnswered ==
    DecodeEnded => set_response_calls = 1

(***************************************************************************)
(* Properties of the device tracker                                        *)
(***************************************************************************)

\* no call is in progress
AllCallsCompleted == \A t \in DOMAIN tpc : tpc[t] = "idle"

\* each counter equals the number of calls that incremented it
CountersMatchCalls ==
    /\ _stats.bootstrap_requests = tracked_calls.bootstrap
    /\ _stats.bootstrap_certificates = tracked_calls.bootstrap
    /\ _stats.enrollment_requests = tracked_calls.enrollment
    /\ _stats.enrollment_certificates = tracked_calls.enrollment
    /\ _stats.failed_requests = tracked_calls.failed
    /\ _stats.total_requests = TotalCalls
    /\ _stats.certificates_issued = tracked_calls.bootstrap + tracked_calls.enrollment

CertificatesAddUp ==
    _stats.certificates_issued =
        _stats.bootstrap_certificates + _stats.enrollment_certificates

\* C29, as the specification states it: no update is lost, and
\* certificates_issued equals bootstrap_certificates plus
\* enrollment_certificates in every reachable state.
C29_NoLostUpdateEveryState ==
    /\ AllCallsCompleted => CountersMatchCalls
    /\ CertificatesAddUp

\* C29, amended: no update is lost, and certificates_issued equals
\* bootstrap_certificates plus enrollment_certificates in every state in
\* which no call holds the tracker's lock.
C29_NoLostUpdateLockFree ==
    /\ AllCallsCompleted => CountersMatchCalls
    /\ _lock = 0 => CertificatesAddUp

\* three calls have completed, a bootstrap and an enrollment among them
C29_Witness ==
    /\ tpc # <<>> /\ AllCallsCompleted
    /\ tracked_calls.bootstrap = 1 /\ tracked_calls.enrollment = 1
    /\ tracked_calls.failed = 1
    /\ _stats.certificates_issued = 2 /\ _stats.total_requests = 3

(***************************************************************************)
(* Properties of the SRP user database                                     *)
(***************************************************************************)

\* C30: change_password never leaves a user without usable credentials:
\* right after it returned True the user authenticates with the new
\* password, and right after it returned False the user still authenticates
\* with every password that authenticated them before the call.
C30_ChangePasswordKeepsCredentials ==
    auth_call.op = "change_password" =>
        IF auth_call.result
        THEN authenticate(user_db, auth_call.username, auth_call.new_password)
        ELSE \A p \in AuthPasswords :
                authenticate(auth_call.before, auth_call.username, p)
                    => authenticate(user_db, auth_call.username, p)

\* the half of C30 about a call that returned True
ChangedPasswordAuthenticates ==
    auth_call.op = "change_password" /\ auth_call.result
        => authenticate(user_db, auth_call.username, auth_call.new_password)

====
